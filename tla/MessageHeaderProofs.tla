------------------------ MODULE MessageHeaderProofs ------------------------
(***************************************************************************)
(* The properties of the life of a header, for every input.  The inductive *)
(* invariants are layered: Base says where the run is and what shape the   *)
(* header has, and every other one is preserved by a step given Base.      *)
(***************************************************************************)
EXTENDS MessageHeader, HeaderTheorems

-----------------------------------------------------------------------------
(***************************************************************************)
(* Where the run is, and what holds there whatever the fields say          *)
(***************************************************************************)
RepairRules == {"r.identical", "r.optionless", "r.firstvalid", "r.version",
                "r.encoding", "r.sender"}

BodyRules == {"identical", "date", "nofrom", "receipt", "received", "invalid", "sender",
              "subject", "boundary", "salvage", "fromsender", "plain", "grade", "html",
              "lastsender", "report", "postmaster", "unknown", "replyto", "encoding",
              "swap", "urls"}

Places == {"read", "repair", "withbody", "part", "children", "simplify", "done", "panic"}
          \cup RepairRules \cup BodyRules

\* The names of the fields that a rule of RepairWithBody may touch.
Touched(at) ==
    CASE at = "identical" -> ConditionNames
      [] at = "date" -> {"Date"}
      [] at \in {"nofrom", "receipt", "salvage", "fromsender", "postmaster", "unknown"} -> {"From"}
      [] at = "received" -> {"Received"}
      [] at = "invalid" -> DroppableNames
      [] at \in {"sender", "lastsender"} -> {"Sender"}
      [] at = "subject" -> {"Subject"}
      [] at \in {"boundary", "plain", "grade", "html"} -> {"Content-Type"}
      [] at = "report" -> {}
      [] at = "replyto" -> {"Reply-To"}
      [] at = "encoding" -> {"Content-Transfer-Encoding"}
      [] at = "swap" -> {"Content-Transfer-Encoding", "Content-Type"}
      [] at = "urls" -> {"Content-Base", "Content-Location"}

\* The rule that follows it.
After(at) ==
    CASE at = "identical" -> "date"
      [] at = "date" -> "nofrom"
      [] at = "nofrom" -> "receipt"
      [] at = "receipt" -> "received"
      [] at = "received" -> "invalid"
      [] at = "invalid" -> "sender"
      [] at = "sender" -> "subject"
      [] at = "subject" -> "boundary"
      [] at = "boundary" -> "salvage"
      [] at = "salvage" -> "fromsender"
      [] at = "fromsender" -> "plain"
      [] at = "plain" -> "grade"
      [] at = "grade" -> "html"
      [] at = "html" -> "lastsender"
      [] at = "lastsender" -> "report"
      [] at = "report" -> "postmaster"
      [] at = "postmaster" -> "unknown"
      [] at = "unknown" -> "replyto"
      [] at = "replyto" -> "encoding"
      [] at = "encoding" -> "swap"
      [] at = "swap" -> "urls"
      [] at = "urls" -> AfterWithBody

\* A field that is not merged is as it was parsed.
AsParsed(k) ==
    \A p \in DOMAIN k.Fields : k.Fields[p].name \notin MergedNames => WellParsed(k.Fields[p])

\* What ReadHeader may still have to read.
PoolFields ==
    {f \in UNION {{Scenarios[s].pool[i] : i \in DOMAIN Scenarios[s].pool} :
                      s \in DOMAIN Scenarios} : ReadShape(f) /\ WellParsed(f)}

\* The invariant that the others rest on.
Base ==
    /\ role \in {"message", "part"} /\ pc \in Places
    /\ role = "part" => pc \notin {"children", "simplify"}
    /\ text \in Seq(PoolFields)
    /\ Shaped(h) /\ Shaped(input)
    /\ h.mode = (IF role = "message" THEN "RFC5322" ELSE "MIME") /\ input.mode = h.mode
    /\ occ \in [CountedNames -> Nat]
    /\ {"kind", "html", "lines", "cut", "found", "base64", "report", "trap", "odd"}
          \subseteq DOMAIN body
    /\ body.lines \in Seq(STRING \ {""})
    /\ body.lines # <<>> => body.kind = "text"
    /\ AsParsed(input)
    /\ pc = "read" => AsParsed(h) /\ ~h.verified
    /\ pc = "repair" => h = input /\ ~h.verified
    /\ pc \in BodyRules => Held(h, occ)
    /\ pc \in {"identical", "date", "nofrom"} /\ occ["From"] = 0 => Named(h, "From") = {}

\* The names that are counted.
LEMMA Counted ==
  /\ ConditionNames = {"Sender", "Reply-To", "To", "Cc", "Bcc", "Message-ID", "References",
                       "Subject", "From", "Date", "MIME-Version", "Content-Type",
                       "Content-Transfer-Encoding", "Return-Path"}
  /\ CountedNames = ConditionNames \cup {"Received", "Content-Location",
                                         "Content-Disposition", "Content-ID"}
  <1> DEFINE S == {"Sender", "Reply-To", "To", "Cc", "Bcc", "Message-ID", "References",
                   "Subject", "From", "Date", "MIME-Version", "Content-Type",
                   "Content-Transfer-Encoding", "Return-Path"}
             C(fn) == [name |-> fn, min |-> IF fn \in {"From", "Date"} THEN 1 ELSE 0,
                       max |-> 1, m |-> "RFC5322"]
  <1>1. \A c \in conditions : c.name \in S
    BY DEF conditions
  <1>2. ASSUME NEW fn \in S PROVE \E c \in conditions : c.name = fn
    <2>1. C(fn) \in conditions
      BY Zenon DEF conditions
    <2>2. C(fn).name = fn
      BY Zenon
    <2> QED
      BY <2>1, <2>2, Zenon
  <1> HIDE DEF S
  <1>3. ConditionNames = S
    BY <1>1, <1>2, Zenon DEF ConditionNames
  <1> QED
    BY <1>3, Zenon DEF CountedNames, ConditionNames, S

\* The fields are counted.
LEMMA CountType ==
  ASSUME NEW k, HeaderOK(k)
  PROVE  /\ Count(k) \in [CountedNames -> Nat]
         /\ \A fn \in CountedNames : Count(k)[fn] = Occurrences(k, fn)
  BY SingleCount, Zenon DEF Count

\* What was counted and is not touched is still there.
LEMMA HeldFrame ==
  ASSUME NEW k, NEW o, Held(k, o), NEW l, NEW N, Changes(k, l, N),
         "From" \notin N, "Content-Type" \notin N
  PROVE  Held(l, o)
  BY Zenon DEF Held, Changes, Frame, SameFields

\* A rule that touches From, or Content-Type, and leaves one.
LEMMA HeldOne ==
  ASSUME NEW k, NEW o, Held(k, o), NEW l, NEW fn \in {"From", "Content-Type"},
         NEW N, Changes(k, l, N), N \cap {"From", "Content-Type"} \subseteq {fn},
         Named(k, fn) # {} => Named(l, fn) # {}
  PROVE  Held(l, o)
  BY Zenon DEF Held, Changes, Frame, SameFields

\* The rules about From leave one.
LEMMA HeldFrom ==
  ASSUME NEW k, NEW o, Held(k, o), NEW l, FromRule(k, l)
  PROVE  Changes(k, l, {"From"}) /\ Held(l, o)
  <1>1. Changes(k, l, {"From"}) /\ (Named(k, "From") # {} => Named(l, "From") # {})
    BY Zenon DEF FromRule, SameFields
  <1> QED
    BY <1>1, HeldOne, Zenon


\* A step of RepairWithBody after the first: one rule, which touches the fields
\* in the table only, or a panic.
LEMMA BodyStep ==
  ASSUME Base, RepairWithBody, pc # "withbody"
  PROVE  /\ pc \in BodyRules /\ UNCHANGED <<context, occ>>
         /\ \/ pc' = "panic" /\ h' = h
            \/ /\ pc' = After(pc)
               /\ Changes(h, h', Touched(pc)) /\ Held(h', occ)
  <1>0. Shaped(h) /\ occ["Content-Type"] \in Nat
    <2>1. occ \in [CountedNames -> Nat] /\ "Content-Type" \in CountedNames
      BY Counted, Zenon DEF Base
    <2> QED
      BY <2>1, Zenon DEF Base
  <1>H. pc \in BodyRules => Held(h, occ)
    BY Zenon DEF Base
  <1>N. Touched("identical") = ConditionNames
    BY Zenon DEF Touched
  <1>1. CASE Risky("identical", RemoveIdenticalPanics(h, occ), RemoveIdentical(h, occ), "date")
    <2> DEFINE l == RemoveIdentical(h, occ)
    <2>1. pc = "identical" /\ UNCHANGED <<context, occ>>
          /\ (\/ pc' = "panic" /\ h' = h
              \/ pc' = "date" /\ h' = l)
      BY <1>1, Zenon DEF Risky, Rule
    <2>2. /\ Changes(h, l, ConditionNames)
          /\ \A fn : Named(h, fn) # {} => Named(l, fn) # {}
      BY <1>0, RemoveIdenticalProperties, Zenon DEF Removes
    <2> HIDE DEF l
    <2>3. Held(h, occ)
      BY <1>H, <2>1, Zenon DEF BodyRules
    <2>4. Held(l, occ)
      BY <2>2, <2>3, Zenon DEF Held
    <2> QED
      BY <1>N, <2>1, <2>2, <2>4, Zenon DEF BodyRules, After
  <1>2. CASE Risky("date", DatePanics(h, parents), FixDate(h, occ, parents), "nofrom")
    <2>1. pc = "date" /\ UNCHANGED <<context, occ>>
          /\ (\/ pc' = "panic" /\ h' = h
              \/ pc' = "nofrom" /\ h' = FixDate(h, occ, parents))
      BY <1>2, Zenon DEF Risky, Rule
    <2>2. Changes(h, FixDate(h, occ, parents), {"Date"})
      BY <1>0, FixDateProperties, Zenon
    <2>3. Held(FixDate(h, occ, parents), occ)
      BY <1>H, <2>1, <2>2, HeldFrame, Zenon DEF BodyRules
    <2> QED
      BY <2>1, <2>2, <2>3, Zenon DEF BodyRules, After, Touched
  <1>3. CASE Risky("nofrom", AddMissingFromPanics(h, occ, theBody), AddMissingFrom(h, occ), "receipt")
    <2> DEFINE l == AddMissingFrom(h, occ)
    <2>1. pc = "nofrom" /\ UNCHANGED <<context, occ>>
          /\ (\/ pc' = "panic" /\ h' = h
              \/ pc' = "receipt" /\ h' = l)
      BY <1>3, Zenon DEF Risky, Rule
    <2>2. Held(h, occ)
      BY <1>H, <2>1, Zenon DEF BodyRules
    <2>a. occ["From"] = 0 => Named(h, "From") = {}
      BY <2>1, Zenon DEF Base
    <2>3. FromRule(h, l)
      BY <1>0, <2>a, AddMissingFromRule, Zenon
    <2> HIDE DEF l
    <2>4. Changes(h, l, {"From"}) /\ Held(l, occ)
      BY <2>2, <2>3, HeldFrom, Zenon
    <2> QED
      BY <2>1, <2>4, Zenon DEF BodyRules, After, Touched
  <1>4. CASE Risky("receipt", UseReceiptPanics(h, theBody), UseReceiptAddress(h), "received")
    <2> DEFINE l == UseReceiptAddress(h)
    <2>1. pc = "receipt" /\ UNCHANGED <<context, occ>>
          /\ (\/ pc' = "panic" /\ h' = h
              \/ pc' = "received" /\ h' = l)
      BY <1>4, Zenon DEF Risky, Rule
    <2>2. Held(h, occ)
      BY <1>H, <2>1, Zenon DEF BodyRules
    <2>3. FromRule(h, l)
      BY <1>0, UseReceiptAddressRule, Zenon
    <2> HIDE DEF l
    <2>4. Changes(h, l, {"From"}) /\ Held(l, occ)
      BY <2>2, <2>3, HeldFrom, Zenon
    <2> QED
      BY <2>1, <2>4, Zenon DEF BodyRules, After, Touched
  <1>5. CASE Rule("received", DropReceived(h, occ), "invalid")
    <2>1. pc = "received" /\ UNCHANGED <<context, occ>> /\ pc' = "invalid" /\ h' = DropReceived(h, occ)
      BY <1>5, Zenon DEF Rule
    <2>2. Changes(h, h', {"Received"})
      BY <1>0, <2>1, DropReceivedProperties, Zenon
    <2>3. Held(h', occ)
      BY <1>H, <2>1, <2>2, HeldFrame, Zenon DEF BodyRules
    <2> QED
      BY <2>1, <2>2, <2>3, Zenon DEF BodyRules, After, Touched
  <1>6. CASE Rule("invalid", DropInvalid(h, occ), "sender")
    <2>1. pc = "invalid" /\ UNCHANGED <<context, occ>> /\ pc' = "sender" /\ h' = DropInvalid(h, occ)
      BY <1>6, Zenon DEF Rule
    <2>2. Changes(h, h', DroppableNames)
      BY <1>0, <2>1, DropInvalidProperties, Zenon DEF Removes
    <2>3. Held(h', occ)
      BY <1>H, <2>1, <2>2, HeldFrame, Zenon DEF BodyRules, DroppableNames
    <2> QED
      BY <2>1, <2>2, <2>3, Zenon DEF BodyRules, After, Touched
  <1>7. CASE Rule("sender", ChooseSender(h, occ), "subject")
    <2>1. pc = "sender" /\ UNCHANGED <<context, occ>> /\ pc' = "subject" /\ h' = ChooseSender(h, occ)
      BY <1>7, Zenon DEF Rule
    <2>2. Changes(h, h', {"Sender"})
      BY <1>0, <2>1, ChooseProperties, Zenon DEF Removes
    <2>3. Held(h', occ)
      BY <1>H, <2>1, <2>2, HeldFrame, Zenon DEF BodyRules
    <2> QED
      BY <2>1, <2>2, <2>3, Zenon DEF BodyRules, After, Touched
  <1>8. CASE Rule("subject", ChooseSubject(h, occ), "boundary")
    <2>1. pc = "subject" /\ UNCHANGED <<context, occ>> /\ pc' = "boundary" /\ h' = ChooseSubject(h, occ)
      BY <1>8, Zenon DEF Rule
    <2>2. Changes(h, h', {"Subject"})
      BY <1>0, <2>1, ChooseProperties, Zenon DEF Removes
    <2>3. Held(h', occ)
      BY <1>H, <2>1, <2>2, HeldFrame, Zenon DEF BodyRules
    <2> QED
      BY <2>1, <2>2, <2>3, Zenon DEF BodyRules, After, Touched
  <1>9. CASE Risky("boundary", GuessBoundaryPanics(h, occ, theBody),
                   GuessBoundary(h, occ, theBody), "salvage")
    <2> DEFINE l == GuessBoundary(h, occ, theBody)
    <2>1. pc = "boundary" /\ UNCHANGED <<context, occ>>
          /\ (\/ pc' = "panic" /\ h' = h
              \/ pc' = "salvage" /\ h' = l)
      BY <1>9, Zenon DEF Risky, Rule
    <2>2. Changes(h, l, {"Content-Type"}) /\ Named(l, "Content-Type") = Named(h, "Content-Type")
      BY <1>0, GuessBoundaryProperties, Zenon
    <2> HIDE DEF l
    <2>3. Held(l, occ)
      BY <1>H, <2>1, <2>2, HeldOne, Zenon DEF BodyRules
    <2> QED
      BY <2>1, <2>2, <2>3, Zenon DEF BodyRules, After, Touched
  <1>10. CASE Risky("salvage", SalvagePanics(h, occ), SalvageFrom(h, occ), "fromsender")
    <2> DEFINE l == SalvageFrom(h, occ)
    <2>1. pc = "salvage" /\ UNCHANGED <<context, occ>>
          /\ (\/ pc' = "panic" /\ h' = h
              \/ pc' = "fromsender" /\ h' = l)
      BY <1>10, Zenon DEF Risky, Rule
    <2>2. Held(h, occ)
      BY <1>H, <2>1, Zenon DEF BodyRules
    <2>3. FromRule(h, l)
      BY <1>0, <2>2, SalvageFromRule, Zenon
    <2> HIDE DEF l
    <2>4. Changes(h, l, {"From"}) /\ Held(l, occ)
      BY <2>2, <2>3, HeldFrom, Zenon
    <2> QED
      BY <2>1, <2>4, Zenon DEF BodyRules, After, Touched
  <1>11. CASE Rule("fromsender", FromFromSender(h, occ), "plain")
    <2>1. pc = "fromsender" /\ UNCHANGED <<context, occ>> /\ pc' = "plain" /\ h' = FromFromSender(h, occ)
      BY <1>11, Zenon DEF Rule
    <2>2. Held(h, occ)
      BY <1>H, <2>1, Zenon DEF BodyRules
    <2>3. FromRule(h, h')
      BY <1>0, <2>1, <2>2, FromFromSenderRule, Zenon
    <2>4. Changes(h, h', {"From"}) /\ Held(h', occ)
      BY <2>2, <2>3, HeldFrom, Zenon
    <2> QED
      BY <2>1, <2>4, Zenon DEF BodyRules, After, Touched
  <1>12. CASE Risky("plain", DropPlainPanics(h, occ), DropPlain(h, occ), "grade")
    <2> DEFINE l == DropPlain(h, occ)
    <2>1. pc = "plain" /\ UNCHANGED <<context, occ>>
          /\ (\/ pc' = "panic" /\ h' = h
              \/ pc' = "grade" /\ h' = l /\ ~DropPlainPanics(h, occ))
      BY <1>12, Zenon DEF Risky, Rule
    <2>2. CASE pc' = "panic" /\ h' = h
      BY <2>1, <2>2, Zenon DEF BodyRules
    <2>3. CASE pc' = "grade" /\ h' = l /\ ~DropPlainPanics(h, occ)
      <3>1. Changes(h, l, {"Content-Type"}) /\ (Named(h, "Content-Type") # {} => Named(l, "Content-Type") # {})
        BY <1>0, <2>3, DropPlainProperties, Zenon DEF Removes
      <3> HIDE DEF l
      <3>2. Held(l, occ)
        BY <1>H, <2>1, <3>1, HeldOne, Zenon DEF BodyRules
      <3> QED
        BY <2>1, <2>3, <3>1, <3>2, Zenon DEF BodyRules, After, Touched
    <2> QED
      BY <2>1, <2>2, <2>3, Zenon
  <1>13. CASE Risky("grade", GradeTypesPanics(h, occ, theBody),
                    GradeTypes(h, occ, theBody), "html")
    <2>1. pc = "grade" /\ UNCHANGED <<context, occ>>
          /\ (\/ pc' = "panic" /\ h' = h
              \/ pc' = "html" /\ h' = GradeTypes(h, occ, theBody) /\ ~GradeTypesPanics(h, occ, theBody))
      BY <1>13, Zenon DEF Risky, Rule
    <2>2. Held(h, occ)
      BY <1>H, <2>1, Zenon DEF BodyRules
    <2>3. CASE pc' = "panic" /\ h' = h
      BY <2>1, <2>3, Zenon DEF BodyRules
    <2>4. CASE pc' = "html" /\ h' = GradeTypes(h, occ, theBody) /\ ~GradeTypesPanics(h, occ, theBody)
      <3>a. occ["Content-Type"] \in Nat /\ Shaped(h)
        BY <1>0, Zenon DEF CountedNames
      <3>b. KeepsOneType(h, GradeTypes(h, occ, theBody))
        BY <2>2, <3>a, GradeRules, Zenon
      <3>1. /\ Changes(h, h', {"Content-Type"})
            /\ h' = h \/ \E n : Named(h', "Content-Type") = {n}
        BY <2>4, <3>b, Zenon DEF KeepsOneType
      <3>2. Held(h', occ)
        BY <2>2, <3>1, HeldOne, Zenon
      <3> QED
        BY <2>1, <2>4, <3>1, <3>2, Zenon DEF BodyRules, After, Touched
    <2> QED
      BY <2>1, <2>3, <2>4, Zenon
  <1>14. CASE Rule("html", OneHtml(h, occ), "lastsender")
    <2>1. pc = "html" /\ UNCHANGED <<context, occ>> /\ pc' = "lastsender" /\ h' = OneHtml(h, occ)
      BY <1>14, Zenon DEF Rule
    <2>2. Held(h, occ)
      BY <1>H, <2>1, Zenon DEF BodyRules
    <2>a. occ["Content-Type"] \in Nat /\ Shaped(h)
      BY <1>0, Zenon DEF CountedNames
    <2>b. KeepsOneType(h, OneHtml(h, occ))
      BY <2>2, <2>a, GradeRules, Zenon
    <2>3. /\ Changes(h, h', {"Content-Type"})
          /\ h' = h \/ \E n : Named(h', "Content-Type") = {n}
      BY <2>1, <2>b, Zenon DEF KeepsOneType
    <2>4. Changes(h, h', {"Content-Type"}) /\ Held(h', occ)
      BY <2>2, <2>3, HeldOne, Zenon
    <2> QED
      BY <2>1, <2>4, Zenon DEF BodyRules, After, Touched
  <1>15. CASE Rule("lastsender", LastSender(h), "report")
    <2>1. pc = "lastsender" /\ UNCHANGED <<context, occ>> /\ pc' = "report" /\ h' = LastSender(h)
      BY <1>15, Zenon DEF Rule
    <2>2. Held(h, occ)
      BY <1>H, <2>1, Zenon DEF BodyRules
    <2>3. Changes(h, h', {"Sender"})
      BY <1>0, <2>1, LastSenderProperties, Zenon
    <2>4. Changes(h, h', {"Sender"}) /\ Held(h', occ)
      BY <2>2, <2>3, HeldFrame, Zenon
    <2> QED
      BY <2>1, <2>4, Zenon DEF BodyRules, After, Touched
  <1>16. CASE Risky("report", ReportPanics(h, theBody),
                    ReportFrom(h, theBody), "postmaster")
    <2>1. pc = "report" /\ UNCHANGED <<context, occ>>
          /\ (\/ pc' = "panic" /\ h' = h
              \/ pc' = "postmaster" /\ h' = ReportFrom(h, theBody) /\ ~ReportPanics(h, theBody))
      BY <1>16, Zenon DEF Risky, Rule
    <2>2. Held(h, occ)
      BY <1>H, <2>1, Zenon DEF BodyRules
    <2>3. CASE pc' = "panic" /\ h' = h
      BY <2>1, <2>3, Zenon DEF BodyRules
    <2>4. CASE pc' = "postmaster" /\ h' = ReportFrom(h, theBody) /\ ~ReportPanics(h, theBody)
      <3>1. h' = h
        BY <2>4, Zenon DEF ReportFrom
      <3>2. Changes(h, h', {})
        BY <1>0, <3>1, ChangesSelf, Zenon
      <3> QED
        BY <2>1, <2>2, <2>4, <3>1, <3>2, Zenon DEF BodyRules, After, Touched
    <2> QED
      BY <2>1, <2>3, <2>4, Zenon
  <1>17. CASE Risky("postmaster", PostmasterPanics(h, occ),
                    Postmaster(h, occ), "unknown")
    <2>1. pc = "postmaster" /\ UNCHANGED <<context, occ>>
          /\ (\/ pc' = "panic" /\ h' = h
              \/ pc' = "unknown" /\ h' = Postmaster(h, occ) /\ ~PostmasterPanics(h, occ))
      BY <1>17, Zenon DEF Risky, Rule
    <2>2. Held(h, occ)
      BY <1>H, <2>1, Zenon DEF BodyRules
    <2>3. CASE pc' = "panic" /\ h' = h
      BY <2>1, <2>3, Zenon DEF BodyRules
    <2>4. CASE pc' = "unknown" /\ h' = Postmaster(h, occ) /\ ~PostmasterPanics(h, occ)
      <3>1. FromRule(h, h')
        BY <1>0, <2>2, <2>4, PostmasterRule, Zenon
      <3>2. Changes(h, h', {"From"}) /\ Held(h', occ)
        BY <2>2, <3>1, HeldFrom, Zenon
      <3> QED
        BY <2>1, <2>4, <3>2, Zenon DEF BodyRules, After, Touched
    <2> QED
      BY <2>1, <2>3, <2>4, Zenon
  <1>18. CASE Risky("unknown", UseInvalidPanics(h, input, theBody), UseInvalid(h), "replyto")
    <2> DEFINE l == UseInvalid(h)
    <2>1. pc = "unknown" /\ UNCHANGED <<context, occ>>
          /\ (\/ pc' = "panic" /\ h' = h
              \/ pc' = "replyto" /\ h' = l)
      BY <1>18, Zenon DEF Risky, Rule
    <2>2. Held(h, occ)
      BY <1>H, <2>1, Zenon DEF BodyRules
    <2>3. FromRule(h, l)
      BY <1>0, UseInvalidRule, Zenon
    <2> HIDE DEF l
    <2>4. Changes(h, l, {"From"}) /\ Held(l, occ)
      BY <2>2, <2>3, HeldFrom, Zenon
    <2> QED
      BY <2>1, <2>4, Zenon DEF BodyRules, After, Touched
  <1>19. CASE Rule("replyto", DropReplyTo(h, occ), "encoding")
    <2>1. pc = "replyto" /\ UNCHANGED <<context, occ>> /\ pc' = "encoding" /\ h' = DropReplyTo(h, occ)
      BY <1>19, Zenon DEF Rule
    <2>2. Held(h, occ)
      BY <1>H, <2>1, Zenon DEF BodyRules
    <2>3. Changes(h, h', {"Reply-To"})
      BY <1>0, <2>1, ChooseProperties, Zenon DEF Removes
    <2>4. Changes(h, h', {"Reply-To"}) /\ Held(h', occ)
      BY <2>2, <2>3, HeldFrame, Zenon
    <2> QED
      BY <2>1, <2>4, Zenon DEF BodyRules, After, Touched
  <1>20. CASE Rule("encoding", GuessEncoding(h, occ, theBody), "swap")
    <2>1. pc = "encoding" /\ UNCHANGED <<context, occ>> /\ pc' = "swap" /\ h' = GuessEncoding(h, occ, theBody)
      BY <1>20, Zenon DEF Rule
    <2>2. Held(h, occ)
      BY <1>H, <2>1, Zenon DEF BodyRules
    <2>3. Changes(h, h', {"Content-Transfer-Encoding"})
      BY <1>0, <2>1, GuessEncodingProperties, Zenon
    <2>4. Changes(h, h', {"Content-Transfer-Encoding"}) /\ Held(h', occ)
      BY <2>2, <2>3, HeldFrame, Zenon
    <2> QED
      BY <2>1, <2>4, Zenon DEF BodyRules, After, Touched
  <1>21. CASE Rule("swap", SwapEncoding(h, occ), "urls")
    <2>1. pc = "swap" /\ UNCHANGED <<context, occ>> /\ pc' = "urls" /\ h' = SwapEncoding(h, occ)
      BY <1>21, Zenon DEF Rule
    <2>2. Held(h, occ)
      BY <1>H, <2>1, Zenon DEF BodyRules
    <2>3. /\ Changes(h, h', {"Content-Transfer-Encoding", "Content-Type"})
          /\ Named(h, "Content-Type") # {} => Named(h', "Content-Type") # {}
      BY <1>0, <2>1, SwapEncodingProperties, Zenon
    <2>4. /\ Changes(h, h', {"Content-Transfer-Encoding", "Content-Type"})
          /\ Held(h', occ)
      BY <2>2, <2>3, HeldOne, Zenon
    <2> QED
      BY <2>1, <2>4, Zenon DEF BodyRules, After, Touched
  <1>22. CASE Rule("urls", Unverify(DropBadURLs(h)), AfterWithBody)
    <2>1. /\ pc = "urls" /\ UNCHANGED <<context, occ>>
          /\ pc' = AfterWithBody /\ h' = Unverify(DropBadURLs(h))
      BY <1>22, Zenon DEF Rule
    <2>2. Changes(h, h', {"Content-Base", "Content-Location"})
      BY <1>0, <2>1, DropBadURLsProperties, Zenon
    <2>3. Held(h', occ)
      BY <1>H, <2>1, <2>2, HeldFrame, Zenon DEF BodyRules
    <2> QED
      BY <2>1, <2>2, <2>3, Zenon DEF BodyRules, After, Touched
  <1>23. ~Enter("withbody", "identical", AfterWithBody)
    BY Zenon DEF Enter
  <1> QED
    BY <1>1, <1>2, <1>3, <1>4, <1>5, <1>6, <1>7, <1>8, <1>9, <1>10, <1>11, <1>12, <1>13, <1>14,
       <1>15, <1>16, <1>17, <1>18, <1>19, <1>20, <1>21, <1>22, <1>23, Zenon DEF RepairWithBody

-----------------------------------------------------------------------------
(***************************************************************************)
(* The other steps                                                         *)
(***************************************************************************)
StartRepair == Enter("repair", "r.identical", AfterRepair)
ApplyRepair == Repair /\ pc # "repair"
StartWithBody == Enter("withbody", "identical", AfterWithBody)
ApplyWithBody == RepairWithBody /\ pc # "withbody"
CallSimplify == Risky("simplify", SimplifyPanics(h), Simplify(h), "done")

\* The steps there are.
LEMMA Cases ==
  ASSUME [Next]_vars
  PROVE  \/ ReadField \/ EndOfHeader \/ StartRepair \/ ApplyRepair
         \/ StartWithBody \/ ApplyWithBody \/ ParseChildren \/ ParsePart \/ CallSimplify
         \/ UNCHANGED vars
  <1>1. CASE Repair
    <2>1. CASE pc = "repair"
      BY <1>1, <2>1, Zenon DEF Repair, Rule, Risky, StartRepair
    <2> QED
      BY <1>1, <2>1, Zenon DEF ApplyRepair
  <1>2. CASE RepairWithBody
    <2>1. CASE pc = "withbody"
      BY <1>2, <2>1, Zenon DEF RepairWithBody, Rule, Risky, StartWithBody
    <2> QED
      BY <1>2, <2>1, Zenon DEF ApplyWithBody
  <1> QED
    BY <1>1, <1>2, Zenon DEF Next, CallSimplify

\* What a rule of Repair does: it takes fields away, with names in N, and
\* changes none but MIME-Version.
Trims(k, l, N) ==
    /\ Changes(k, l, N)
    /\ \A p \in DOMAIN l.Fields :
          /\ p \in DOMAIN k.Fields /\ l.Fields[p].name = k.Fields[p].name
          /\ l.Fields[p] = k.Fields[p] \/ k.Fields[p].name = "MIME-Version"
    /\ \A fn : fn \notin {"Sender", "Content-Transfer-Encoding"} /\ Named(k, fn) # {} =>
          Named(l, fn) # {}
    /\ l.verified = k.verified /\ l.err = k.err

\* The names that a rule of Repair may touch, and the rule that follows it.
Trimmed(at) ==
    CASE at = "r.identical" -> ConditionNames
      [] at = "r.optionless" -> {"Content-Type"}
      [] at = "r.firstvalid" -> FirstOnlyNames \cup {"Content-Type"}
      [] at = "r.version" -> {"MIME-Version"}
      [] at = "r.encoding" -> {"Content-Transfer-Encoding"}
      [] at = "r.sender" -> {"Sender"}

AfterRule(at) ==
    CASE at = "r.identical" -> "r.optionless"
      [] at = "r.optionless" -> "r.firstvalid"
      [] at = "r.firstvalid" -> "r.version"
      [] at = "r.version" -> "r.encoding"
      [] at = "r.encoding" -> "r.sender"
      [] at = "r.sender" -> AfterRepair

\* The fields of a name that is not touched are still there.
LEMMA TrimsRemoves ==
  ASSUME NEW k, NEW l, NEW N, Removes(k, l, N),
         \A fn \in N : fn \notin {"Sender", "Content-Transfer-Encoding"} /\ Named(k, fn) # {} =>
             Named(l, fn) # {}
  PROVE  Trims(k, l, N)
  <1>1. \A fn : fn \notin N => Named(l, fn) = Named(k, fn)
    BY Zenon DEF Removes, Changes, Frame, SameFields
  <1> QED
    BY <1>1, Zenon DEF Removes, Trims

\* A step of Repair after the first: one rule, or a panic.
LEMMA RepairStep ==
  ASSUME Base, ApplyRepair
  PROVE  /\ pc \in RepairRules /\ UNCHANGED <<context, occ>>
         /\ \/ /\ pc' = "panic" /\ h' = h
               /\ \/ pc = "r.identical" /\ RemoveIdenticalPanics(h, occ)
                  \/ pc = "r.encoding" /\ MultipartEncodingPanics(h, occ)
                  \/ pc = "r.sender" /\ DropSenderPanics(h, occ)
            \/ pc' = AfterRule(pc) /\ Trims(h, h', Trimmed(pc))
  <1>0. Shaped(h)
    BY Zenon DEF Base
  <1>1. CASE Risky("r.identical", RemoveIdenticalPanics(h, occ),
                   RemoveIdentical(h, occ), "r.optionless")
    <2> DEFINE l == RemoveIdentical(h, occ)
    <2>1. pc = "r.identical" /\ UNCHANGED <<context, occ>>
          /\ \/ pc' = "panic" /\ h' = h /\ RemoveIdenticalPanics(h, occ)
             \/ pc' = "r.optionless" /\ h' = l
      BY <1>1, Zenon DEF Risky, Rule
    <2>2. /\ Removes(h, l, ConditionNames)
          /\ \A fn : Named(h, fn) # {} => field(h, fn, 0) \in Named(l, fn)
      BY <1>0, RemoveIdenticalProperties, Zenon
    <2> HIDE DEF l
    <2>3. Trims(h, l, ConditionNames)
      BY <2>2, TrimsRemoves, Zenon
    <2> QED
      BY <2>1, <2>3, Zenon DEF RepairRules, AfterRule, Trimmed
  <1>2. CASE Rule("r.optionless", RemoveOptionless(h, occ), "r.firstvalid")
    <2>1. pc = "r.optionless" /\ UNCHANGED <<context, occ>> /\ pc' = "r.firstvalid"
          /\ h' = RemoveOptionless(h, occ)
      BY <1>2, Zenon DEF Rule
    <2>2. /\ Removes(h, h', {"Content-Type"})
          /\ Named(h, "Content-Type") # {} => Named(h', "Content-Type") # {}
      BY <1>0, <2>1, RemoveOptionlessProperties, Zenon
    <2>3. Trims(h, h', {"Content-Type"})
      BY <2>2, TrimsRemoves, Zenon
    <2> QED
      BY <2>1, <2>3, Zenon DEF RepairRules, AfterRule, Trimmed
  <1>3. CASE Rule("r.firstvalid", KeepFirstValid(h, occ), "r.version")
    <2>1. pc = "r.firstvalid" /\ UNCHANGED <<context, occ>> /\ pc' = "r.version"
          /\ h' = KeepFirstValid(h, occ)
      BY <1>3, Zenon DEF Rule
    <2>2. /\ Removes(h, h', FirstOnlyNames \cup {"Content-Type"})
          /\ \A fn : Named(h, fn) # {} => Named(h', fn) # {}
      BY <1>0, <2>1, KeepFirstValidProperties, Zenon
    <2>3. Trims(h, h', FirstOnlyNames \cup {"Content-Type"})
      BY <2>2, TrimsRemoves, Zenon
    <2> QED
      BY <2>1, <2>3, Zenon DEF RepairRules, AfterRule, Trimmed
  <1>4. CASE Rule("r.version", NoteMIMEVersion(h, occ), "r.encoding")
    <2>1. pc = "r.version" /\ UNCHANGED <<context, occ>> /\ pc' = "r.encoding"
          /\ h' = NoteMIMEVersion(h, occ)
      BY <1>4, Zenon DEF Rule
    <2>2. /\ Changes(h, h', {"MIME-Version"})
          /\ DOMAIN h'.Fields \subseteq DOMAIN h.Fields
          /\ \A p \in DOMAIN h'.Fields :
                /\ h'.Fields[p].name = h.Fields[p].name
                /\ h'.Fields[p] = h.Fields[p] \/ h.Fields[p].name = "MIME-Version"
          /\ Named(h, "MIME-Version") # {} => Named(h', "MIME-Version") # {}
          /\ h'.verified = h.verified /\ h'.err = h.err
      BY <1>0, <2>1, NoteMIMEVersionProperties
    <2>3. \A fn : fn # "MIME-Version" => Named(h', fn) = Named(h, fn)
      BY <2>2, Zenon DEF Changes, Frame, SameFields
    <2>4. Trims(h, h', {"MIME-Version"})
      BY <2>2, <2>3, Zenon DEF Trims
    <2> QED
      BY <2>1, <2>4, Zenon DEF RepairRules, AfterRule, Trimmed
  <1>5. CASE Risky("r.encoding", MultipartEncodingPanics(h, occ),
                   DropMultipartEncoding(h, occ), "r.sender")
    <2>1. /\ pc = "r.encoding" /\ UNCHANGED <<context, occ>>
          /\ \/ pc' = "panic" /\ h' = h /\ MultipartEncodingPanics(h, occ)
             \/ pc' = "r.sender" /\ h' = DropMultipartEncoding(h, occ)
      BY <1>5, Zenon DEF Risky, Rule
    <2>2. CASE pc' = "panic" /\ h' = h /\ MultipartEncodingPanics(h, occ)
      BY <2>1, <2>2, Zenon DEF RepairRules
    <2>3. CASE pc' = "r.sender" /\ h' = DropMultipartEncoding(h, occ)
      <3>1. Removes(h, h', {"Content-Transfer-Encoding"})
        BY <1>0, <2>3, DropProperties, Zenon
      <3>2. Trims(h, h', {"Content-Transfer-Encoding"})
        BY <3>1, TrimsRemoves, Zenon
      <3> QED
        BY <2>1, <2>3, <3>2, Zenon DEF RepairRules, AfterRule, Trimmed
    <2> QED
      BY <2>1, <2>2, <2>3, Zenon
  <1>6. CASE Risky("r.sender", DropSenderPanics(h, occ), DropSender(h, occ), AfterRepair)
    <2> DEFINE l == DropSender(h, occ)
    <2>1. pc = "r.sender" /\ UNCHANGED <<context, occ>>
          /\ \/ pc' = "panic" /\ h' = h /\ DropSenderPanics(h, occ)
             \/ pc' = AfterRepair /\ h' = l
      BY <1>6, Zenon DEF Risky, Rule
    <2>2. Removes(h, l, {"Sender"})
      BY <1>0, DropProperties, Zenon
    <2> HIDE DEF l
    <2>3. Trims(h, l, {"Sender"})
      BY <2>2, TrimsRemoves, Zenon
    <2> QED
      BY <2>1, <2>3, Zenon DEF RepairRules, AfterRule, Trimmed
  <1>7. CASE Enter("repair", "r.identical", AfterRepair)
    BY <1>7, Zenon DEF Enter, ApplyRepair
  <1> QED
    BY <1>1, <1>2, <1>3, <1>4, <1>5, <1>6, <1>7, Zenon DEF ApplyRepair, Repair

\* What parseBodypart and Simplify do together: of the fields other than these
\* they make none, and keep the mailboxes.
Condenses(k, l) ==
    /\ Shaped(l) /\ l.mode = k.mode /\ l.defaultType = k.defaultType
    /\ \A fn : Single(k, fn) => Single(l, fn)
    /\ \A fn \in {"From", "Date"} : Named(l, fn) = Named(k, fn)
    /\ \A fn : fn \notin PartNames \cup Rewritten => Named(l, fn) \subseteq Named(k, fn)
    /\ \A p \in DOMAIN l.Fields : l.Fields[p].name \notin PartNames \cup Rewritten =>
          /\ l.Fields[p].err = k.Fields[p].err
          /\ IF l.Fields[p].name \in addressFieldNames
             THEN SameMailboxes(k.Fields[p].val, l.Fields[p].val)
             ELSE l.Fields[p].val = k.Fields[p].val
    /\ OneValid(k, "Content-Transfer-Encoding") => OneValid(l, "Content-Transfer-Encoding")
    /\ AddressesOf(k, "Message-ID") # <<>> => SameFields(k, l, "Message-ID")

\* parseBodypart leaves a verdict that is right.
LEMMA ImprovesVerdict ==
  ASSUME NEW k, Shaped(k), NEW l, Improves(k, l)
  PROVE  /\ Acceptable(k) => Acceptable(l)
         /\ Trusted(k) => Trusted(l)
  <1>1. HeaderOK(k) /\ HeaderOK(l) /\ l.mode = k.mode
    BY Zenon DEF Improves, Changes, Frame, Shaped
  <1>2. \A fn \in {"From", "Date"} : Named(l, fn) = Named(k, fn)
    BY Zenon DEF Improves, Changes, Frame, SameFields, PartNames
  <1>3. ASSUME Acceptable(k) PROVE Acceptable(l)
    <2>1. /\ AllFieldsValid(k) /\ NoneRepeated(k)
          /\ k.mode = "RFC5322" => Named(k, "From") # {} /\ Named(k, "Date") # {}
      BY <1>1, <1>3, AcceptableMeans, Zenon
    <2>2. AllFieldsValid(l)
      BY <2>1, Zenon DEF AllFieldsValid, Improves
    <2>3. NoneRepeated(l)
      <3> SUFFICES ASSUME NEW c \in conditions PROVE Occurrences(l, c.name) <= c.max
        BY Zenon DEF NoneRepeated
      <3>1. c.max = 1
        BY DEF conditions
      <3>2. Occurrences(k, c.name) <= 1
        BY <2>1, <3>1, Zenon DEF NoneRepeated
      <3>3. Single(k, c.name)
        BY <1>1, <3>2, SingleCount, Zenon
      <3>4. Single(l, c.name)
        BY <3>3, Zenon DEF Improves
      <3> QED
        BY <1>1, <3>1, <3>4, SingleCount, Zenon
    <2> QED
      BY <1>1, <1>2, <2>1, <2>2, <2>3, AcceptableMeans, Zenon
  <1> QED
    BY <1>3, Zenon DEF Trusted, Improves

\* Simplify after parseBodypart, or after nothing.
LEMMA SimplifyCondenses ==
  ASSUME NEW k, Shaped(k), NEW m, Improves(k, m)
  PROVE  Condenses(k, Simplify(m))
  <1> DEFINE v == verify(m)
             l == Simplify(m)
  <1>1. Shaped(m) /\ Changes(k, m, PartNames)
    BY Zenon DEF Improves, Changes
  <1>2. HeaderOK(k) /\ HeaderOK(m) /\ m.mode = k.mode /\ m.defaultType = k.defaultType
    BY <1>1, Zenon DEF Shaped, Changes, Frame
  <1>3. Shaped(l) /\ Simpler(v, l) /\ Shaped(v)
    BY <1>1, SimplifyShaped, Zenon
  <1>4. Changes(m, v, {}) /\ v.Fields = m.Fields
    BY <1>1, ChangesVerify, Zenon
  <1>5. HeaderOK(v) /\ HeaderOK(l) /\ v.mode = m.mode /\ v.defaultType = m.defaultType
    BY <1>3, <1>4, Zenon DEF Changes, Frame, Shaped
  <1> HIDE DEF v, l
  <1>6. \A fn : Named(v, fn) = Named(m, fn)
    BY <1>4, Zenon DEF Named
  <1>7. \A fn : fn \notin PartNames => SameFields(k, m, fn)
    BY <1>1, Zenon DEF Changes, Frame
  <1>8. ASSUME NEW fn, Single(k, fn) PROVE Single(l, fn)
    <2>1. Single(v, fn)
      BY <1>6, <1>8, Zenon DEF Improves, Single
    <2>2. Occurrences(v, fn) <= 1
      BY <1>5, <2>1, SingleCount, Zenon
    <2>3. Occurrences(l, fn) <= 1
      BY <1>3, <2>2, Zenon DEF Simpler
    <2> QED
      BY <1>5, <2>3, SingleCount, Zenon
  <1>9. \A fn \in {"From", "Date"} : Named(l, fn) = Named(k, fn)
    BY <1>3, <1>6, <1>7, Zenon DEF Simpler, SameFields, PartNames
  <1>10. ASSUME NEW fn, fn \notin PartNames \cup Rewritten
         PROVE  Named(l, fn) \subseteq Named(k, fn)
    <2>1. Named(m, fn) = Named(k, fn)
      BY <1>7, <1>10, Zenon DEF SameFields
    <2> QED
      BY <1>3, <1>6, <1>10, <2>1, Zenon DEF Simpler
  <1>11. ASSUME NEW p \in DOMAIN l.Fields, l.Fields[p].name \notin PartNames \cup Rewritten
         PROVE  /\ l.Fields[p].err = k.Fields[p].err
                /\ IF l.Fields[p].name \in addressFieldNames
                   THEN SameMailboxes(k.Fields[p].val, l.Fields[p].val)
                   ELSE l.Fields[p].val = k.Fields[p].val
    <2> DEFINE fn == l.Fields[p].name
    <2>1. p \in Named(k, fn)
      BY <1>10, <1>11, Zenon DEF Named
    <2>2. v.Fields[p] = k.Fields[p]
      BY <1>4, <1>7, <1>11, <2>1, Zenon DEF SameFields
    <2> QED
      BY <1>3, <1>11, <2>2, Zenon DEF Simpler
  <1>12. ASSUME OneValid(k, "Content-Transfer-Encoding")
         PROVE  OneValid(l, "Content-Transfer-Encoding")
    <2>1. Single(l, "Content-Transfer-Encoding")
      BY <1>8, <1>12, Zenon DEF OneValid, Single
    <2>2. ASSUME NEW p \in Named(l, "Content-Transfer-Encoding") PROVE l.Fields[p].err = ""
      <3>1. p \in Named(m, "Content-Transfer-Encoding") /\ l.Fields[p].err = m.Fields[p].err
        BY <1>3, <1>4, <1>6, <2>2 DEF Simpler, Rewritten, Named
      <3>2. \/ m.Fields[p].err = ""
            \/ p \in Named(k, "Content-Transfer-Encoding") /\ k.Fields[p].err = m.Fields[p].err
        BY <3>1, Zenon DEF Improves, Named
      <3> QED
        BY <1>12, <3>1, <3>2, Zenon DEF OneValid
    <2> QED
      BY <2>1, <2>2, Zenon DEF OneValid, Single
  <1>13. ASSUME AddressesOf(k, "Message-ID") # <<>> PROVE SameFields(k, l, "Message-ID")
    <2>1. SameFields(k, v, "Message-ID")
      BY <1>4, <1>6, <1>7, Zenon DEF PartNames, SameFields
    <2>2. AddressesOf(v, "Message-ID") = AddressesOf(k, "Message-ID")
      BY <1>2, <2>1, SameAnswers, Zenon
    <2>3. SameFields(v, l, "Message-ID")
      BY <1>3, <1>13, <2>2, Zenon DEF Simpler
    <2> QED
      BY <2>1, <2>3, Zenon DEF SameFields
  <1>14. l.mode = k.mode /\ l.defaultType = k.defaultType
    BY <1>2, <1>3, <1>5, Zenon DEF Simpler
  <1>15. Condenses(k, l)
    BY <1>3, <1>8, <1>9, <1>10, <1>11, <1>12, <1>13, <1>14, Zenon DEF Condenses
  <1> QED
    BY <1>15, Zenon DEF l

\* They do not touch a From that did not parse: Simplify has nothing to do with
\* an invalid header.
LEMMA BadFromUntouched ==
  ASSUME NEW k, Shaped(k), Trusted(k), NEW m, Improves(k, m),
         InvalidOnes(Simplify(m), "From") # {}
  PROVE  SameFields(k, Simplify(m), "From")
  <1>1. Shaped(m) /\ SameFields(k, m, "From")
    BY Zenon DEF Improves, Changes, Frame, PartNames
  <1>2. Trusted(m)
    BY ImprovesVerdict, Zenon
  <1>3. Sound(m)
    BY <1>1, ShapedSound, Zenon
  <1>4. Valid(m) => Acceptable(m)
    BY <1>2, <1>3, SimplifyVerdict, Zenon
  <1>5. Condenses(m, Simplify(m))
    BY <1>1, ImprovesSelf, SimplifyCondenses, Zenon
  <1>6. ~Acceptable(m)
    <2> SUFFICES ASSUME Acceptable(m) PROVE FALSE
      BY Zenon
    <2>1. AllFieldsValid(m)
      BY Zenon DEF Acceptable
    <2>2. Named(Simplify(m), "From") = Named(m, "From")
      BY <1>5, Zenon DEF Condenses
    <2>3. PICK p \in Named(m, "From") : p \in DOMAIN Simplify(m).Fields
                                        /\ Simplify(m).Fields[p].name = "From"
                                        /\ Simplify(m).Fields[p].err # ""
      BY <2>2, Zenon DEF InvalidOnes, ValidOnes, Named
    <2>4. "From" \notin PartNames \cup Rewritten
      BY Zenon DEF PartNames, Rewritten
    <2>5. m.Fields[p].err # ""
      BY <1>5, <2>3, <2>4, Zenon DEF Condenses
    <2> QED
      BY <2>1, <2>3, <2>5, Zenon DEF AllFieldsValid, Named
  <1>7. Simplify(m) = verify(m)
    BY <1>3, <1>4, <1>6, SimplifyProperties, Zenon
  <1>8. verify(m).Fields = m.Fields
    BY <1>1, ChangesVerify, Zenon
  <1> QED
    BY <1>1, <1>7, <1>8, Zenon DEF SameFields, Named

\* The verdict after Simplify.
LEMMA VerdictAfter ==
  ASSUME NEW k, Shaped(k), Trusted(k), NEW m, Improves(k, m)
  PROVE  /\ Trusted(Simplify(m))
         /\ (k.verified => ~k.err /\ Acceptable(k)) =>
               (Simplify(m).verified => Simplify(m).err = ~Acceptable(Simplify(m)))
  <1>1. Shaped(m)
    BY Zenon DEF Improves, Changes
  <1>2. Trusted(m) /\ Sound(m)
    BY <1>1, ImprovesVerdict, ShapedSound, Zenon
  <1>3. ASSUME k.verified => ~k.err /\ Acceptable(k)
        PROVE  m.verified => m.err = ~Acceptable(m)
    <2> SUFFICES ASSUME m.verified PROVE m.err = ~Acceptable(m)
      BY Zenon
    <2>1. k.verified /\ m.err = k.err
      BY Zenon DEF Improves
    <2>2. Acceptable(m) /\ ~m.err
      BY <1>3, <2>1, ImprovesVerdict, Zenon
    <2>3. m.err \in BOOLEAN
      BY <1>1, Zenon DEF Shaped, HeaderOK
    <2> QED
      BY <2>2, <2>3, Zenon DEF Acceptable
  <1> QED
    BY <1>2, <1>3, SimplifyVerdict, Zenon

\* parseBodypart and Simplify, as steps.
LEMMA LaterStep ==
  ASSUME Base, ParsePart \/ CallSimplify
  PROVE  /\ pc \in {"part", "simplify"} /\ UNCHANGED <<context, occ>>
         /\ \/ /\ pc' = "panic" /\ h' = h
               /\ PartPanics(h, body) \/ \E m : Improves(h, m) /\ SimplifyPanics(m)
            \/ /\ pc' = IF pc = "simplify" THEN "done"
                        ELSE IF role = "message" THEN "simplify" ELSE "withbody"
               /\ \E m : Improves(h, m) /\ h' = Simplify(m)
  <1>0. Shaped(h)
    BY Zenon DEF Base
  <1>1. CASE ParsePart
    <2>1. /\ pc = "part" /\ UNCHANGED <<context, occ>>
          /\ \/ /\ pc' = "panic" /\ h' = h
                /\ PartPanics(h, body) \/ SimplifyPanics(parseBodypart(h, body))
             \/ /\ pc' = IF role = "message" THEN "simplify" ELSE "withbody"
                /\ h' = Simplify(parseBodypart(h, body))
      BY <1>1, Zenon DEF ParsePart, Risky, Rule
    <2>2. Improves(h, parseBodypart(h, body))
      BY <1>0, parseBodypartImproves, Zenon
    <2> QED
      BY <2>1, <2>2, Zenon
  <1>2. CASE CallSimplify
    <2>1. /\ pc = "simplify" /\ UNCHANGED <<context, occ>>
          /\ \/ pc' = "panic" /\ h' = h /\ SimplifyPanics(h)
             \/ pc' = "done" /\ h' = Simplify(h)
      BY <1>2, Zenon DEF CallSimplify, Risky, Rule
    <2>2. Improves(h, h)
      BY <1>0, ImprovesSelf, Zenon
    <2> QED
      BY <2>1, <2>2, Zenon
  <1> QED
    BY <1>1, <1>2, Zenon

-----------------------------------------------------------------------------
(***************************************************************************)
(* Base                                                                    *)
(***************************************************************************)
\* It holds at first.
LEMMA BaseInit == Init => Base
  <1> SUFFICES ASSUME Init PROVE Base
    BY Zenon
  <1>1. PICK s \in DOMAIN Scenarios :
          /\ role \in Scenarios[s].roles /\ body \in Scenarios[s].bodies
          /\ \E fs \in Scenarios[s].starts, dt \in {"text/plain", "message/rfc822"} :
                h = Start(role, dt, fs)
          /\ \E n \in 0..Scenarios[s].more :
                \E pick \in [1..n -> DOMAIN Scenarios[s].pool] :
                   text = [i \in 1..n |-> Scenarios[s].pool[pick[i]]]
    BY Zenon DEF Init
  <1> DEFINE c == Scenarios[s]
  <1>2. PICK fs \in c.starts : \E dt \in {"text/plain", "message/rfc822"} : h = Start(role, dt, fs)
    BY <1>1, Zenon
  <1>3. PICK dt \in {"text/plain", "message/rfc822"} : h = Start(role, dt, fs)
    BY <1>2, Zenon
  <1>4. /\ c.roles \subseteq {"message", "part"} /\ c.more \in Nat
        /\ \A i \in DOMAIN c.pool : ReadShape(c.pool[i]) /\ WellParsed(c.pool[i])
        /\ Len(fs) \in Nat /\ DOMAIN fs = 1..Len(fs)
        /\ \A i \in DOMAIN fs : ReadShape(fs[i]) /\ WellParsed(fs[i])
        /\ \A i, j \in DOMAIN fs : fs[i].name \in MergedNames /\ fs[i].name = fs[j].name => i = j
        /\ {"kind", "html", "lines", "cut", "found", "base64", "report", "trap", "odd"}
              \subseteq DOMAIN body
        /\ body.lines \in Seq(STRING \ {""})
        /\ body.lines # <<>> => body.kind = "text"
    <2>1. c.roles \subseteq {"message", "part"} /\ c.more \in Nat
      BY ScenariosAssumption, Zenon
    <2>2. \A i \in DOMAIN c.pool : ReadShape(c.pool[i]) /\ WellParsed(c.pool[i])
      BY ScenariosAssumption, Zenon
    <2>3. /\ Len(fs) \in Nat /\ DOMAIN fs = 1..Len(fs)
          /\ \A i \in DOMAIN fs : ReadShape(fs[i]) /\ WellParsed(fs[i])
          /\ \A i, j \in DOMAIN fs :
                fs[i].name \in MergedNames /\ fs[i].name = fs[j].name => i = j
      BY ScenariosAssumption, Zenon
    <2>4. /\ {"kind", "html", "lines", "cut", "found", "base64", "report", "trap", "odd"}
                \subseteq DOMAIN body
          /\ body.lines \in Seq(STRING \ {""})
          /\ body.lines # <<>> => body.kind = "text"
      BY <1>1, ScenariosAssumption, Zenon
    <2> QED
      BY <2>1, <2>2, <2>3, <2>4, Zenon
  <1>5. text \in Seq(PoolFields)
    <2>0. PICK n \in 0..c.more :
             \E pick \in [1..n -> DOMAIN c.pool] : text = [i \in 1..n |-> c.pool[pick[i]]]
      BY <1>1, Zenon
    <2>1. PICK pick \in [1..n -> DOMAIN c.pool] : text = [i \in 1..n |-> c.pool[pick[i]]]
      BY <2>0, Zenon
    <2>2. ASSUME NEW i \in DOMAIN c.pool PROVE c.pool[i] \in PoolFields
      <3>1. c.pool[i] \in UNION {{Scenarios[t].pool[j] : j \in DOMAIN Scenarios[t].pool} :
                                    t \in DOMAIN Scenarios}
        OBVIOUS
      <3> QED
        BY <1>4, <3>1, Zenon DEF PoolFields
    <2>3. n \in Nat
      <3>1. c.more \in Nat
        BY <1>4, Zenon
      <3> HIDE DEF c
      <3> QED
        BY <3>1
    <2>4. \A i \in 1..n : pick[i] \in DOMAIN c.pool
      BY Zenon
    <2> HIDE DEF c
    <2> QED
      BY <2>1, <2>2, <2>3, <2>4
  <1>6. h = [Fields |-> fs, last |-> Len(fs),
             mode |-> IF role = "message" THEN "RFC5322" ELSE "MIME", defaultType |-> dt,
             verified |-> FALSE, err |-> FALSE]
    BY <1>3, Zenon DEF Start, NewHeader
  <1>7. HeaderOK(h)
    BY <1>4, <1>6, Zenon DEF HeaderOK, ReadShape, FieldShape
  <1>8. AddressFieldsMerged(h)
    BY <1>4, <1>6, Zenon DEF AddressFieldsMerged
  <1>9. Shaped(h) /\ AsParsed(h) /\ ~h.verified
    BY <1>4, <1>6, <1>7, <1>8, Zenon DEF Shaped, AsParsed
  <1>10. role \in {"message", "part"} /\ input = h /\ pc = "read" /\ occ = Count(h)
    BY <1>1, <1>4, Zenon DEF Init
  <1>11. occ \in [CountedNames -> Nat]
    BY <1>7, <1>10, CountType, Zenon
  <1>12. h.mode = (IF role = "message" THEN "RFC5322" ELSE "MIME") /\ input.mode = h.mode
    BY <1>6, <1>10, Zenon
  <1> QED
    BY <1>4, <1>5, <1>9, <1>10, <1>11, <1>12, Zenon DEF Base, Places, BodyRules

\* A field that is read, parsed and added.
LEMMA ReadStep ==
  ASSUME Base, ReadField
  PROVE  /\ pc = "read" /\ UNCHANGED <<input, occ, body, parents, role, pc>>
         /\ text' \in Seq(PoolFields)
         /\ Shaped(h') /\ h'.mode = h.mode /\ AsParsed(h') /\ ~h'.verified
  <1>1. /\ pc = "read" /\ UNCHANGED <<input, occ, body, parents, role, pc>>
        /\ text # <<>> /\ h' = addField(h, Head(text)) /\ text' = Tail(text)
    BY Zenon DEF ReadField
  <1>2. text \in Seq(PoolFields) /\ Shaped(h) /\ AsParsed(h) /\ ~h.verified
    BY <1>1, Zenon DEF Base
  <1>3. Head(text) \in PoolFields /\ Tail(text) \in Seq(PoolFields)
    BY <1>1, <1>2
  <1> DEFINE f == Head(text)
  <1>4. ReadShape(f) /\ WellParsed(f) /\ FieldShape(f)
    BY <1>3, Zenon DEF PoolFields, ReadShape
  <1> HIDE DEF f
  <1>5. HeaderOK(h) /\ f = [name |-> f.name, err |-> f.err, val |-> f.val]
    BY <1>2, <1>4, Zenon DEF Shaped, FieldShape
  <1>6. Changes(h, addField(h, f), {f.name})
    BY <1>2, <1>4, ChangesAdd, Zenon
  <1>7. ~addField(h, f).verified
    BY <1>2, <1>4, ShapedSound, AddSound, Zenon
  <1>8. AsParsed(addField(h, f))
    <2> SUFFICES ASSUME NEW p \in DOMAIN addField(h, f).Fields,
                        addField(h, f).Fields[p].name \notin MergedNames
                 PROVE  WellParsed(addField(h, f).Fields[p])
      BY Zenon DEF AsParsed
    <2>1. CASE addField(h, f).Fields[p].name # f.name
      <3>1. SameFields(h, addField(h, f), addField(h, f).Fields[p].name)
        BY <1>6, <2>1, Zenon DEF Changes, Frame
      <3> QED
        BY <1>2, <3>1, Zenon DEF SameFields, Named, AsParsed
    <2>2. CASE addField(h, f).Fields[p].name = f.name
      <3>1. f.name \notin MergedNames
        BY <2>2, Zenon
      <3>0. /\ DOMAIN addField(h, f).Fields = DOMAIN h.Fields \cup {h.last + 1}
            /\ addField(h, f).Fields[h.last + 1] = f
            /\ \A q \in DOMAIN h.Fields : addField(h, f).Fields[q] = h.Fields[q]
        <4>1. f.name \notin MergedNames \/ Named(h, f.name) = {}
          BY <3>1, Zenon
        <4> QED
          BY <1>5, <4>1, AddAppends, Zenon
      <3>2. p = h.last + 1 \/ p \in DOMAIN h.Fields
        BY <3>0, Zenon
      <3>3. CASE p = h.last + 1
        BY <1>4, <3>0, <3>3, Zenon
      <3>4. CASE p \in DOMAIN h.Fields
        <4>1. addField(h, f).Fields[p] = h.Fields[p]
          BY <3>0, <3>4, Zenon
        <4> QED
          BY <1>2, <3>4, <4>1, Zenon DEF AsParsed
      <3> QED
        BY <3>2, <3>3, <3>4, Zenon
    <2> QED
      BY <2>1, <2>2, Zenon
  <1>9. h' = addField(h, f)
    BY <1>1, Zenon DEF f
  <1> QED
    BY <1>1, <1>3, <1>6, <1>7, <1>8, <1>9, Zenon DEF Changes, Frame

\* What there is to show for a step after ReadHeader.
LEMMA BaseKept ==
  ASSUME Base, UNCHANGED context, Shaped(h'), h'.mode = h.mode,
         occ' \in [CountedNames -> Nat], pc' \in Places \ {"read", "repair"},
         role = "part" => pc' \notin {"children", "simplify"},
         pc' \in BodyRules => Held(h', occ'),
         pc' \in {"identical", "date", "nofrom"} /\ occ'["From"] = 0 => Named(h', "From") = {}
  PROVE  Base'
  <1>1. text' = text /\ input' = input /\ body' = body /\ role' = role
    BY Zenon DEF context
  <1>2. pc' \in Places /\ pc' # "read" /\ pc' # "repair"
    BY Zenon
  <1> QED
    BY <1>1, <1>2, Zenon DEF Base

\* Every step preserves it.
LEMMA BaseStep == Base /\ [Next]_vars => Base'
  <1> SUFFICES ASSUME Base, [Next]_vars PROVE Base'
    BY Zenon
  <1>0. Shaped(h) /\ HeaderOK(h) /\ occ \in [CountedNames -> Nat] /\ role \in {"message", "part"}
    BY Zenon DEF Base, Shaped
  <1>1. CASE ReadField
    <2>1. /\ pc = "read" /\ UNCHANGED <<input, occ, body, parents, role, pc>>
          /\ text' \in Seq(PoolFields)
          /\ Shaped(h') /\ h'.mode = h.mode /\ AsParsed(h') /\ ~h'.verified
      BY <1>1, ReadStep, Zenon
    <2> QED
      BY <2>1, Zenon DEF Base, BodyRules
  <1>2. CASE EndOfHeader
    <2>1. pc = "read" /\ input' = h /\ pc' = "repair" /\ UNCHANGED <<text, h, occ, body, role>>
      BY <1>2, Zenon DEF EndOfHeader
    <2>2. pc' \in Places /\ pc' \notin BodyRules
      BY <2>1, Zenon DEF Places, BodyRules
    <2> QED
      BY <2>1, <2>2, Zenon DEF Base
  <1>3. ASSUME Changes(h, h', {}), occ' = Count(h), UNCHANGED context,
               pc' \in {"withbody", "part", "r.identical", "children", "done", "identical"},
               role = "part" => pc' # "children"
        PROVE  Base'
    <2>1. occ' \in [CountedNames -> Nat] /\ \A fn \in CountedNames : occ'[fn] = Occurrences(h, fn)
      BY <1>0, <1>3, CountType, Zenon
    <2>2. \A fn : Named(h', fn) = Named(h, fn)
      BY <1>3, Zenon DEF Changes, Frame, SameFields
    <2>3. ASSUME NEW fn \in {"From", "Content-Type"}
          PROVE  occ'[fn] \in Nat /\ (occ'[fn] = 0 <=> Named(h', fn) = {})
      <3>1. fn \in CountedNames
        BY Counted, Zenon
      <3> QED
        BY <1>0, <2>1, <2>2, <3>1, SingleCount, Zenon
    <2>4. Held(h', occ')
      BY <2>3 DEF Held
    <2>5. pc' \in Places \ {"read", "repair"} /\ (role = "part" => pc' \notin {"children", "simplify"})
      BY <1>3, Zenon DEF Places, RepairRules, BodyRules
    <2>6. Shaped(h') /\ h'.mode = h.mode
      BY <1>3, Zenon DEF Changes, Frame
    <2> QED
      BY <1>3, <2>1, <2>3, <2>4, <2>5, <2>6, BaseKept, Zenon
  <1>4. CASE StartRepair
    <2>1. /\ h' = verify(h) /\ occ' = Count(h) /\ UNCHANGED context
          /\ pc' \in {AfterRepair, "r.identical"}
      BY <1>4, Zenon DEF StartRepair, Enter
    <2>2. Changes(h, h', {})
      BY <1>0, <2>1, ChangesVerify, Zenon
    <2>3. pc' \in {"withbody", "part", "r.identical"}
      BY <2>1, Zenon DEF AfterRepair
    <2> QED
      BY <1>3, <2>1, <2>2, <2>3, Zenon
  <1>5. CASE StartWithBody
    <2>1. /\ h' = verify(h) /\ occ' = Count(h) /\ UNCHANGED context
          /\ pc' \in {AfterWithBody, "identical"}
      BY <1>5, Zenon DEF StartWithBody, Enter
    <2>2. Changes(h, h', {})
      BY <1>0, <2>1, ChangesVerify, Zenon
    <2>3. pc' \in {"done", "children", "part", "identical"} /\ (role = "part" => pc' # "children")
      BY <2>1, Zenon DEF AfterWithBody
    <2> QED
      BY <1>3, <2>1, <2>2, <2>3, Zenon
  <1>6. CASE ApplyRepair
    <2>1. /\ pc \in RepairRules /\ UNCHANGED <<context, occ>>
          /\ \/ pc' = "panic" /\ h' = h
             \/ pc' = AfterRule(pc) /\ Trims(h, h', Trimmed(pc))
      BY <1>6, RepairStep, Zenon
    <2>2. pc' \in {"panic", "withbody", "part"} \cup RepairRules
      BY <2>1, Zenon DEF RepairRules, AfterRule, AfterRepair
    <2>3. pc' \in Places \ {"read", "repair"} /\ pc' \notin BodyRules
      BY <2>2, Zenon DEF Places, RepairRules, BodyRules
    <2>4. Shaped(h') /\ h'.mode = h.mode
      BY <1>0, <2>1, Zenon DEF Trims, Changes, Frame
    <2>5. pc' \notin {"identical", "date", "nofrom", "children", "simplify"}
      BY <2>2, Zenon DEF RepairRules
    <2> QED
      BY <1>0, <2>1, <2>3, <2>4, <2>5, BaseKept, Zenon
  <1>7. CASE ApplyWithBody
    <2>1. /\ pc \in BodyRules /\ UNCHANGED <<context, occ>>
          /\ \/ pc' = "panic" /\ h' = h
             \/ /\ pc' = After(pc)
                /\ Changes(h, h', Touched(pc)) /\ Held(h', occ)
      BY <1>7, BodyStep, Zenon DEF ApplyWithBody
    <2>2. pc' \in {"panic", "done", "children", "part"} \cup (BodyRules \ {"identical"})
      BY <2>1, Zenon DEF BodyRules, After, AfterWithBody
    <2>3. pc' \in Places \ {"read", "repair"}
      BY <2>2, Zenon DEF Places, RepairRules, BodyRules
    <2>4. Shaped(h') /\ h'.mode = h.mode
      BY <1>0, <2>1, Zenon DEF Changes, Frame
    <2>5. pc' \in BodyRules => Held(h', occ')
      BY <2>1, Zenon DEF BodyRules
    <2>6. ASSUME pc' \in {"date", "nofrom"}, occ["From"] = 0 PROVE Named(h', "From") = {}
      <3>1. pc \in {"identical", "date"} /\ Changes(h, h', Touched(pc))
        BY <2>1, <2>6, Zenon DEF BodyRules, After, AfterWithBody
      <3>2. Named(h, "From") = {}
        BY <2>6, <3>1, Zenon DEF Base
      <3>3. CASE pc = "identical"
        <4>1. h' = RemoveIdentical(h, occ)
          BY <1>7, <2>6, <3>3, Zenon DEF ApplyWithBody, RepairWithBody, Rule, Risky, Enter
        <4>2. Removes(h, h', ConditionNames)
          BY <1>0, <4>1, RemoveIdenticalProperties, Zenon
        <4> QED
          BY <3>2, <4>2, RemovesNamed, Zenon
      <3>4. CASE pc = "date"
        BY <3>1, <3>2, <3>4, Zenon DEF Touched, Changes, Frame, SameFields
      <3> QED
        BY <3>1, <3>3, <3>4, Zenon
    <2>7. pc' # "identical" /\ occ' = occ
      BY <2>1, <2>2, Zenon DEF BodyRules
    <2>8. role = "part" => pc' \notin {"children", "simplify"}
      BY <2>1, Zenon DEF BodyRules, After, AfterWithBody
    <2> QED
      BY <1>0, <2>1, <2>3, <2>4, <2>5, <2>6, <2>7, <2>8, BaseKept, Zenon
  <1>8. CASE ParseChildren
    <2>1. pc = "children" /\ h' = h /\ UNCHANGED <<context, occ>> /\ pc' \in {"panic", "simplify"}
      BY <1>8, Zenon DEF ParseChildren, Risky, Rule
    <2>2. pc' \in Places \ {"read", "repair"} /\ pc' \notin BodyRules
      BY <2>1, Zenon DEF Places, RepairRules, BodyRules
    <2>3. role # "part"
      BY <2>1, Zenon DEF Base
    <2> QED
      BY <1>0, <2>1, <2>2, <2>3, BaseKept, Zenon
  <1>9. CASE ParsePart \/ CallSimplify
    <2>1. /\ UNCHANGED <<context, occ>> /\ pc' \in {"panic", "done", "simplify", "withbody"}
          /\ role = "part" => pc' # "simplify"
          /\ h' = h \/ \E m : Improves(h, m) /\ h' = Simplify(m)
      BY <1>9, LaterStep, Zenon
    <2>2. pc' \in Places \ {"read", "repair"} /\ pc' \notin BodyRules
      BY <2>1, Zenon DEF Places, RepairRules, BodyRules
    <2>3. h' = h \/ Condenses(h, h')
      BY <1>0, <2>1, SimplifyCondenses, Zenon
    <2>4. Shaped(h') /\ h'.mode = h.mode
      BY <1>0, <2>3, Zenon DEF Condenses
    <2>5. pc' \notin {"identical", "date", "nofrom"}
      BY <2>1, Zenon
    <2> QED
      BY <1>0, <2>1, <2>2, <2>4, <2>5, BaseKept, Zenon
  <1>10. CASE UNCHANGED vars
    BY <1>10, Zenon DEF vars, Base
  <1> QED
    BY <1>1, <1>2, <1>4, <1>5, <1>6, <1>7, <1>8, <1>9, <1>10, Cases, Zenon

\* Where a header is, what shape it has and what has been counted, however the
\* message looks.
THEOREM BaseInvariant == Spec => []Base
  BY BaseInit, BaseStep, PTL DEF Spec

-----------------------------------------------------------------------------
(***************************************************************************)
(* The cached verdict                                                      *)
(***************************************************************************)
Verdict ==
    /\ pc \in RepairRules => h.verified /\ h.err
    /\ pc \in {"withbody", "part", "children", "simplify"} => Trusted(h)
    /\ role = "message" /\ pc \in {"children", "part"} /\ h.verified => ~h.err /\ Acceptable(h)
    /\ role = "message" /\ pc = "simplify" /\ h.verified => h.err = ~Acceptable(h)

\* verify does not change what is acceptable.
LEMMA VerifyVerdict ==
  ASSUME NEW k, HeaderOK(k)
  PROVE  /\ Acceptable(verify(k)) <=> Acceptable(k)
         /\ Valid(k) <=> ~verify(k).err
         /\ Trusted(k) => Trusted(verify(k))
         /\ Trusted(k) /\ Valid(k) => Acceptable(k)
         /\ ~Valid(k) => verify(k).verified /\ verify(k).err
  <1>1. /\ verify(k).Fields = k.Fields /\ verify(k).verified
        /\ k.verified => verify(k) = k
        /\ ~k.verified => verify(k).err = ~Acceptable(k)
    BY VerifyProperties, Zenon
  <1>2. verify(k).mode = k.mode
    BY Zenon DEF verify, HeaderOK
  <1>3. Acceptable(verify(k)) <=> Acceptable(k)
    BY <1>1, <1>2, Zenon DEF Acceptable, AllFieldsValid, Breaks, Occurrences, Named
  <1>4. CASE k.verified
    BY <1>1, <1>4, Zenon DEF Valid, Trusted
  <1>5. CASE ~k.verified
    BY <1>1, <1>3, <1>5, Zenon DEF Valid, Trusted
  <1> QED
    BY <1>3, <1>4, <1>5, Zenon

\* Every step preserves it.
LEMMA VerdictStep == Base /\ Verdict /\ [Next]_vars => Verdict'
  <1> SUFFICES ASSUME Base, Verdict, [Next]_vars PROVE Verdict'
    BY Zenon
  <1>0. Shaped(h) /\ HeaderOK(h)
    BY Zenon DEF Base, Shaped
  <1>1. CASE ReadField \/ EndOfHeader
    <2>1. pc' \in {"read", "repair"}
      BY <1>1, Zenon DEF ReadField, EndOfHeader
    <2> QED
      BY <2>1, Zenon DEF Verdict, RepairRules
  <1>2. CASE StartRepair
    <2>1. /\ pc = "repair" /\ h' = verify(h) /\ role' = role
          /\ pc' = IF Valid(h) THEN AfterRepair ELSE "r.identical"
      BY <1>2, Zenon DEF StartRepair, Enter, context
    <2>2. ~h.verified
      BY <2>1, Zenon DEF Base
    <2>3. Trusted(h') /\ (~Valid(h) => h'.verified /\ h'.err)
      BY <1>0, <2>1, <2>2, VerifyVerdict, Zenon DEF Trusted
    <2>4. CASE Valid(h)
      <3>1. pc' = IF role = "message" THEN "withbody" ELSE "part"
        BY <2>1, <2>4, Zenon DEF AfterRepair
      <3> QED
        BY <2>1, <2>3, <3>1, Zenon DEF Verdict, RepairRules
    <2>5. CASE ~Valid(h)
      BY <2>1, <2>3, <2>5, Zenon DEF Verdict
    <2> QED
      BY <2>4, <2>5, Zenon
  <1>3. CASE StartWithBody
    <2>1. /\ pc = "withbody" /\ h' = verify(h)
          /\ pc' = IF Valid(h) THEN AfterWithBody ELSE "identical"
      BY <1>3, Zenon DEF StartWithBody, Enter
    <2>2. CASE Valid(h)
      <3>1. Trusted(h)
        BY <2>1, Zenon DEF Verdict
      <3>2. ~h'.err /\ Acceptable(h')
        BY <1>0, <2>1, <2>2, <3>1, VerifyVerdict, Zenon
      <3>3. pc' \in {"done", "children", "part"}
        BY <2>1, <2>2, Zenon DEF AfterWithBody
      <3> QED
        BY <3>2, <3>3, Zenon DEF Verdict, RepairRules, Trusted
    <2>3. CASE ~Valid(h)
      BY <2>1, <2>3, Zenon DEF Verdict, RepairRules
    <2> QED
      BY <2>2, <2>3, Zenon
  <1>4. CASE ApplyRepair
    <2>1. /\ pc \in RepairRules /\ UNCHANGED <<context, occ>>
          /\ \/ pc' = "panic" /\ h' = h
             \/ pc' = AfterRule(pc) /\ Trims(h, h', Trimmed(pc))
      BY <1>4, RepairStep, Zenon
    <2>2. h'.verified /\ h'.err
      BY <2>1, Zenon DEF Verdict, Trims
    <2>3. /\ pc' \in {"panic", "withbody", "part"} \cup RepairRules
          /\ role = "message" => pc' # "part"
      BY <2>1, Zenon DEF RepairRules, AfterRule, AfterRepair
    <2>4. role' = role /\ pc' # "children" /\ pc' # "simplify"
      BY <2>1, <2>3, Zenon DEF context, RepairRules
    <2> QED
      BY <2>2, <2>3, <2>4, Zenon DEF Verdict, Trusted
  <1>5. CASE ApplyWithBody
    <2>1. /\ pc \in BodyRules
          /\ \/ pc' = "panic" /\ h' = h
             \/ pc' = After(pc)
      BY <1>5, BodyStep, Zenon DEF ApplyWithBody
    <2>2. CASE pc # "urls"
      <3>1. pc' \in {"panic"} \cup BodyRules
        BY <2>1, <2>2, Zenon DEF BodyRules, After
      <3> QED
        BY <3>1, Zenon DEF BodyRules, RepairRules, Verdict
    <2>3. CASE pc = "urls"
      <3>1. h' = Unverify(DropBadURLs(h)) /\ pc' = AfterWithBody
        BY <1>5, <2>3, Zenon DEF ApplyWithBody, RepairWithBody, Rule, Risky, Enter
      <3>2. ~h'.verified
        BY <1>0, <3>1, DropBadURLsProperties, Zenon
      <3>3. pc' \in {"done", "children", "part"}
        BY <3>1, Zenon DEF AfterWithBody
      <3> QED
        BY <3>2, <3>3, Zenon DEF Verdict, RepairRules, Trusted
    <2> QED
      BY <2>2, <2>3, Zenon
  <1>6. CASE ParseChildren
    <2>1. pc = "children" /\ h' = h /\ role' = role /\ pc' \in {"panic", "simplify"}
      BY <1>6, Zenon DEF ParseChildren, Risky, Rule, context
    <2>2. Trusted(h') /\ (role = "message" /\ h.verified => ~h.err /\ Acceptable(h))
      BY <2>1, Zenon DEF Verdict
    <2>3. h.err \in BOOLEAN
      BY <1>0, Zenon DEF HeaderOK
    <2>4. role = "message" /\ h.verified => h.err = ~Acceptable(h)
      BY <2>2, <2>3, Zenon DEF Acceptable
    <2> QED
      BY <2>1, <2>2, <2>4, Zenon DEF Verdict, RepairRules
  <1>7. CASE ParsePart \/ CallSimplify
    <2>1. /\ pc \in {"part", "simplify"} /\ UNCHANGED <<context, occ>>
          /\ \/ pc' = "panic"
             \/ /\ pc' = IF pc = "simplify" THEN "done"
                         ELSE IF role = "message" THEN "simplify" ELSE "withbody"
                /\ \E m : Improves(h, m) /\ h' = Simplify(m)
      BY <1>7, LaterStep, Zenon
    <2>2. CASE pc' \in {"panic", "done"}
      BY <2>2, Zenon DEF Verdict, RepairRules
    <2>3. CASE pc' \notin {"panic", "done"}
      <3>1. /\ pc = "part" /\ pc' = IF role = "message" THEN "simplify" ELSE "withbody"
            /\ \E m : Improves(h, m) /\ h' = Simplify(m)
        BY <2>1, <2>3, Zenon
      <3>2. PICK m : Improves(h, m) /\ h' = Simplify(m)
        BY <3>1, Zenon
      <3>3. Trusted(h) /\ (role = "message" => (h.verified => ~h.err /\ Acceptable(h)))
        BY <3>1, Zenon DEF Verdict
      <3>4. Trusted(h')
        BY <1>0, <3>2, <3>3, VerdictAfter, Zenon
      <3>5. role = "message" => (h'.verified => h'.err = ~Acceptable(h'))
        BY <1>0, <3>2, <3>3, VerdictAfter, Zenon
      <3>6. role' = role
        BY <2>1, Zenon DEF context
      <3> QED
        BY <3>1, <3>4, <3>5, <3>6, Zenon DEF Verdict, RepairRules
    <2> QED
      BY <2>2, <2>3, Zenon
  <1>8. CASE UNCHANGED vars
    BY <1>8, Zenon DEF vars, Verdict
  <1> QED
    BY <1>1, <1>2, <1>3, <1>4, <1>5, <1>6, <1>7, <1>8, Cases, Zenon

\* The invariant of the verdict.
THEOREM VerdictInvariant == Spec => [](Base /\ Verdict)
  <1>1. Init => Base /\ Verdict
    BY BaseInit, Zenon DEF Init, Verdict, RepairRules
  <1>2. Base /\ Verdict /\ [Next]_vars => Base' /\ Verdict'
    BY BaseStep, VerdictStep, Zenon
  <1> QED
    BY <1>1, <1>2, PTL DEF Spec

\* Valid() of a header that RepairWithBody has returned is computed afresh.
THEOREM VerdictStaysFresh == Spec => []VerdictFresh
  <1>1. Base /\ Verdict => VerdictFresh
    <2> SUFFICES ASSUME Base, Verdict, role = "message", pc \in {"children", "part", "simplify"},
                        h.verified
                 PROVE  h.err = ~Acceptable(h)
      BY Zenon DEF VerdictFresh
    <2>1. CASE pc = "simplify"
      BY <2>1, Zenon DEF Verdict
    <2>2. CASE pc # "simplify"
      <3>1. ~h.err /\ Acceptable(h) /\ h.err \in BOOLEAN
        BY <2>2, Zenon DEF Verdict, Base, Shaped, HeaderOK
      <3> QED
        BY <3>1, Zenon DEF Acceptable
    <2> QED
      BY <2>1, <2>2, Zenon
  <1> QED
    BY <1>1, VerdictInvariant, PTL

-----------------------------------------------------------------------------
(***************************************************************************)
(* Repair                                                                  *)
(***************************************************************************)
\* No step of Repair adds a field, or changes one other than MIME-Version.
THEOREM RepairNeverAdds == Spec => RepairOnlyRemoves
  <1>1. Base /\ [Next]_vars => [(pc \in RepairSteps) => OnlyRemoves]_vars
    <2> SUFFICES ASSUME Base, [Next]_vars, pc \in RepairSteps, ~UNCHANGED vars
                 PROVE  OnlyRemoves
      BY Zenon
    <2>1. CASE StartRepair
      <3>1. h' = verify(h) /\ HeaderOK(h)
        BY <2>1, Zenon DEF StartRepair, Enter, Base, Shaped
      <3>2. h'.Fields = h.Fields
        BY <3>1, VerifyProperties, Zenon
      <3> QED
        BY <3>2, Zenon DEF OnlyRemoves
    <2>2. CASE ApplyRepair
      <3>1. h' = h \/ Trims(h, h', Trimmed(pc))
        BY <2>2, RepairStep, Zenon
      <3> QED
        BY <3>1, Zenon DEF OnlyRemoves, Trims
    <2>3. pc \notin {"read", "withbody", "children", "part", "simplify"} \cup BodyRules
      BY Zenon DEF RepairSteps, BodyRules
    <2>4. ~(ReadField \/ EndOfHeader \/ StartWithBody \/ ParseChildren \/ ParsePart \/ CallSimplify)
      BY <2>3, Zenon DEF ReadField, EndOfHeader, StartWithBody, Enter, ParseChildren, ParsePart,
                  CallSimplify, Risky, Rule
    <2>5. ~ApplyWithBody
      BY <2>3, BodyStep, Zenon DEF ApplyWithBody
    <2> QED
      BY <2>1, <2>2, <2>4, <2>5, Cases, Zenon
  <1> QED
    BY <1>1, BaseInvariant, PTL DEF Spec, RepairOnlyRemoves

\* The first valid field of the input.
FirstValid(fn) == NthOf(ValidOnes(input, fn), 0)

\* What Repair has left of the input so far.
RepairInv ==
    /\ pc \in RepairRules => occ = Count(input)
    /\ pc = "r.identical" => h.Fields = input.Fields
    /\ pc \in RepairRules \/ Repaired =>
          /\ \A p \in DOMAIN h.Fields :
                /\ p \in DOMAIN input.Fields /\ h.Fields[p].name = input.Fields[p].name
                /\ h.Fields[p].name # "MIME-Version" => h.Fields[p] = input.Fields[p]
          /\ \A fn : fn \notin {"Sender", "Content-Transfer-Encoding"} /\ Named(input, fn) # {} =>
                Named(h, fn) # {}
          /\ \A fn \in FirstOnlyNames : ValidOnes(input, fn) # {} =>
                /\ FirstValid(fn) \in Named(h, fn)
                /\ pc \notin {"r.identical", "r.optionless", "r.firstvalid"} =>
                      Named(h, fn) = {FirstValid(fn)}

\* The first valid field is one.
LEMMA FirstValidFound ==
  ASSUME Base, NEW fn, ValidOnes(input, fn) # {}
  PROVE  /\ FirstValid(fn) \in ValidOnes(input, fn)
         /\ \A q \in ValidOnes(input, fn) : FirstValid(fn) <= q
         /\ IsFiniteSet(ValidOnes(input, fn)) /\ ValidOnes(input, fn) \subseteq Nat
  <1>1. HeaderOK(input) /\ ValidOnes(input, fn) \in SUBSET (DOMAIN input.Fields)
    BY Zenon DEF Base, Shaped, ValidOnes, Named
  <1>2. IsFiniteSet(ValidOnes(input, fn)) /\ ValidOnes(input, fn) \subseteq Nat
    BY <1>1, PositionsFinite, Zenon
  <1> QED
    BY <1>2, FirstLeast, Zenon DEF FirstValid

\* The order on positions.
LEMMA Antisymmetric == \A m, n \in Nat : m <= n /\ n <= m => m = n
  OBVIOUS

\* A list of one address and a list of none.
LEMMA OneAndNone ==
  /\ \A l \in Seq(Address) : Len(l) = 1 => 1 \in DOMAIN l
  /\ \A l \in Seq(Address) : l = <<>> => 1 \notin DOMAIN l
  OBVIOUS

\* A valid field and an invalid one of one of these names differ in their text.
LEMMA ValidText ==
  ASSUME NEW f, NEW g, ReadShape(f), ReadShape(g), WellParsed(f), WellParsed(g),
         f.name \in FirstOnlyNames, g.name = f.name, f.err = "", g.err # ""
  PROVE  rfc822(f) # rfc822(g)
  <1>1. CASE f.name = "Date"
    BY <1>1, Zenon DEF WellParsed, rfc822, addressFieldNames
  <1>2. CASE f.name \in {"Return-Path", "References"}
    BY <1>2, Zenon DEF WellParsed, WellParsedAddresses, AddressNames, addressFieldNames
  <1>3. CASE f.name = "Message-ID"
    <2>1. f.val \in Seq(Address) /\ g.val \in Seq(Address)
      BY <1>3, Zenon DEF ReadShape, AddressNames
    <2>2. Len(f.val) = 1 /\ g.val = <<>>
      BY <1>3, Zenon DEF WellParsed, WellParsedAddresses, AddressNames
    <2>3. 1 \in DOMAIN f.val /\ 1 \notin DOMAIN g.val
      BY <2>1, <2>2, OneAndNone, Zenon
    <2>4. /\ rfc822(f) = [i \in DOMAIN f.val |-> toString(f.val[i])]
          /\ rfc822(g) = [i \in DOMAIN g.val |-> toString(g.val[i])]
      BY <1>3, Zenon DEF rfc822, addressFieldNames
    <2>5. 1 \in DOMAIN rfc822(f) /\ 1 \notin DOMAIN rfc822(g)
      BY <2>3, <2>4, Zenon
    <2> QED
      BY <2>5, Zenon
  <1> QED
    BY <1>1, <1>2, <1>3, Zenon DEF FirstOnlyNames

\* What a rule that takes fields away keeps of it.
LEMMA TrimsKept ==
  ASSUME Base, RepairInv, pc \in RepairRules, NEW l, NEW N, Trims(h, l, N)
  PROVE  /\ \A p \in DOMAIN l.Fields :
               /\ p \in DOMAIN input.Fields /\ l.Fields[p].name = input.Fields[p].name
               /\ l.Fields[p].name # "MIME-Version" => l.Fields[p] = input.Fields[p]
         /\ \A fn : fn \notin {"Sender", "Content-Transfer-Encoding"} /\ Named(input, fn) # {} =>
               Named(l, fn) # {}
  BY Zenon DEF RepairInv, Trims

\* The first valid fields survive every rule, and are the only ones after
\* KeepFirstValid.
LEMMA FirstValidKept ==
  ASSUME Base, RepairInv, ApplyRepair, pc' # "panic",
         NEW fn \in FirstOnlyNames, ValidOnes(input, fn) # {}
  PROVE  /\ FirstValid(fn) \in Named(h', fn)
         /\ pc \notin {"r.identical", "r.optionless"} => Named(h', fn) = {FirstValid(fn)}
  <1> DEFINE first == FirstValid(fn)
  <1>0. /\ Shaped(h) /\ HeaderOK(h) /\ Shaped(input) /\ HeaderOK(input) /\ AsParsed(input)
        /\ pc \in RepairRules
    BY RepairStep, Zenon DEF Base, Shaped
  <1>1. /\ first \in ValidOnes(input, fn) /\ \A q \in ValidOnes(input, fn) : first <= q
        /\ IsFiniteSet(ValidOnes(input, fn)) /\ ValidOnes(input, fn) \subseteq Nat
    BY FirstValidFound, Zenon
  <1>2. first \in Named(h, fn)
    BY <1>0, Zenon DEF RepairInv
  <1>3. /\ \A p \in Named(h, fn) : p \in Named(input, fn) /\ h.Fields[p] = input.Fields[p]
        /\ fn # "MIME-Version"
    BY <1>0, Zenon DEF RepairInv, Named, FirstOnlyNames
  <1>4. CASE pc = "r.identical"
    <2>1. h' = RemoveIdentical(h, occ)
      BY <1>4, Zenon DEF ApplyRepair, Repair, Rule, Risky, Enter
    <2>2. \A p \in Named(h, fn) \ Named(h', fn) :
             /\ p # field(h, fn, 0)
             /\ rfc822(h.Fields[p]) = rfc822(h.Fields[field(h, fn, 0)])
      BY <1>0, <2>1, RemoveIdenticalProperties, Zenon
    <2>3. ASSUME first \notin Named(h', fn) PROVE FALSE
      <3> DEFINE f == h.Fields[first]
                 q == field(h, fn, 0)
                 g == h.Fields[q]
      <3>1. q \in Named(h, fn) /\ \A p \in Named(h, fn) : q <= p
        <4>1. /\ IsFiniteSet(Named(h, fn)) /\ Named(h, fn) \subseteq Nat
          BY <1>0, PositionsFinite, Zenon DEF Named
        <4> QED
          BY <1>2, <4>1, FirstLeast, Zenon DEF field
      <3>2. first # q /\ rfc822(f) = rfc822(g)
        BY <1>2, <2>2, <2>3, Zenon
      <3>3. f = input.Fields[first] /\ g = input.Fields[q] /\ q \in Named(input, fn)
        BY <1>2, <1>3, <3>1, Zenon
      <3>4. f.name = fn /\ g.name = fn /\ f.err = ""
        BY <1>1, <1>2, <3>1, <3>3, Zenon DEF Named, ValidOnes
      <3>5. g.err # ""
        <4> SUFFICES ASSUME g.err = "" PROVE FALSE
          BY Zenon
        <4>1. q \in ValidOnes(input, fn)
          BY <3>3, Zenon DEF ValidOnes
        <4>2. first \in Nat /\ q \in Nat /\ first <= q /\ q <= first
          BY <1>1, <1>2, <3>1, <4>1, Zenon
        <4>3. first # q
          BY <3>2, Zenon
        <4> HIDE DEF first, q
        <4> QED
          BY <4>2, <4>3, Antisymmetric, Zenon
      <3>6. ReadShape(f) /\ ReadShape(g)
        BY <1>0, <1>2, <3>1, Zenon DEF Shaped, Named
      <3>7. WellParsed(f) /\ WellParsed(g)
        <4>1. fn \notin MergedNames
          BY Zenon DEF FirstOnlyNames, MergedNames
        <4>2. first \in Named(input, fn)
          BY <1>1, Zenon DEF ValidOnes
        <4>3. \A p \in Named(input, fn) : WellParsed(input.Fields[p])
          BY <1>0, <4>1, Zenon DEF AsParsed, Named
        <4> QED
          BY <3>3, <4>2, <4>3, Zenon
      <3> HIDE DEF f, g
      <3> QED
        BY <3>2, <3>4, <3>5, <3>6, <3>7, ValidText, Zenon
    <2> QED
      BY <1>4, <2>3, Zenon
  <1>5. CASE pc \notin {"r.identical", "r.firstvalid"}
    <2>1. Changes(h, h', Trimmed(pc))
      BY RepairStep, Zenon DEF Trims
    <2>2. fn \notin Trimmed(pc)
      BY <1>0, <1>5, Zenon DEF RepairRules, Trimmed, FirstOnlyNames
    <2>3. Named(h', fn) = Named(h, fn)
      BY <2>1, <2>2, Zenon DEF Changes, Frame, SameFields
    <2>4. pc # "r.optionless" => Named(h, fn) = {first}
      BY <1>0, <1>5, Zenon DEF RepairInv
    <2> QED
      BY <1>2, <2>3, <2>4, Zenon
  <1>6. CASE pc = "r.firstvalid"
    <2>1. h' = KeepFirstValid(h, occ) /\ occ = Count(input)
      BY <1>0, <1>6, Zenon DEF ApplyRepair, Repair, Rule, Risky, Enter, RepairInv
    <2>2. /\ Removes(h, h', FirstOnlyNames \cup {"Content-Type"})
          /\ ValidOnes(h, fn) # {} => NthOf(ValidOnes(h, fn), 0) \in Named(h', fn)
          /\ occ[fn] > 1 /\ ValidOnes(h, fn) # {} => Named(h', fn) = {NthOf(ValidOnes(h, fn), 0)}
      BY <1>0, <2>1, KeepFirstValidProperties, Zenon
    <2>3. first \in ValidOnes(h, fn) /\ ValidOnes(h, fn) \subseteq ValidOnes(input, fn)
      BY <1>1, <1>2, <1>3, Zenon DEF ValidOnes
    <2>4. NthOf(ValidOnes(h, fn), 0) = first
      <3>1. IsFiniteSet(ValidOnes(h, fn)) /\ ValidOnes(h, fn) \in SUBSET Nat
        BY <1>0, PositionsFinite, Zenon DEF Named, ValidOnes
      <3>2. \A q \in ValidOnes(h, fn) : first <= q
        BY <1>1, <2>3, Zenon
      <3> QED
        BY <2>3, <3>1, <3>2, FirstIs, Zenon
    <2>5. fn \in CountedNames
      BY Counted, Zenon DEF FirstOnlyNames
    <2>6. occ[fn] = Occurrences(input, fn) /\ occ[fn] \in Nat
      BY <1>0, <2>1, <2>5, CountType, Zenon
    <2>7. CASE occ[fn] > 1
      BY <2>2, <2>3, <2>4, <2>7, Zenon
    <2>8. CASE ~(occ[fn] > 1)
      <3>1. Single(input, fn)
        BY <1>0, <2>6, <2>8, SingleCount
      <3>2. Named(h', fn) \subseteq Named(input, fn) /\ first \in Named(h', fn)
        BY <1>3, <2>2, <2>3, <2>4, RemovesNamed, Zenon
      <3> QED
        BY <3>1, <3>2, Zenon DEF Single
    <2> QED
      BY <2>7, <2>8, Zenon
  <1> QED
    BY <1>4, <1>5, <1>6, Zenon

\* Every step preserves RepairInv.
LEMMA RepairInvStep == Base /\ RepairInv /\ [Next]_vars => RepairInv'
  <1> SUFFICES ASSUME Base, RepairInv, [Next]_vars PROVE RepairInv'
    BY Zenon
  <1>1. ASSUME pc' \notin RepairRules, pc' # AfterRepair' PROVE RepairInv'
    BY <1>1, Zenon DEF RepairInv, Repaired, RepairRules
  <1>2. CASE ReadField \/ EndOfHeader
    <2>1. pc' \in {"read", "repair"}
      BY <1>2, Zenon DEF ReadField, EndOfHeader
    <2> QED
      BY <1>1, <2>1, Zenon DEF RepairRules, AfterRepair
  <1>3. CASE StartRepair
    <2>1. /\ pc = "repair" /\ h' = verify(h) /\ occ' = Count(h) /\ input' = input /\ role' = role
          /\ pc' = IF Valid(h) THEN AfterRepair ELSE "r.identical"
      BY <1>3, Zenon DEF StartRepair, Enter, context
    <2>2. h = input /\ ~h.verified /\ HeaderOK(h)
      BY <2>1, Zenon DEF Base, Shaped
    <2>3. h'.Fields = input.Fields
      BY <2>1, <2>2, VerifyProperties, Zenon
    <2>4. \A fn : Named(h', fn) = Named(input, fn)
      BY <2>3, Zenon DEF Named
    <2>5. ASSUME NEW fn \in FirstOnlyNames, ValidOnes(input, fn) # {}
          PROVE  /\ FirstValid(fn) \in Named(h', fn)
                 /\ pc' # "r.identical" => Named(h', fn) = {FirstValid(fn)}
      <3>1. FirstValid(fn) \in Named(h', fn)
        BY <2>4, <2>5, FirstValidFound, Zenon DEF ValidOnes
      <3>2. ASSUME pc' # "r.identical" PROVE Named(h', fn) = {FirstValid(fn)}
        <4>1. Acceptable(h)
          BY <2>1, <2>2, <3>2, VerifyVerdict, Zenon DEF Trusted
        <4>2. NoneRepeated(h)
          BY <2>2, <4>1, AcceptableMeans, Zenon
        <4>3. fn \in ConditionNames
          BY Counted, Zenon DEF FirstOnlyNames
        <4>4. PICK c \in conditions : c.name = fn
          BY <4>3, Zenon DEF ConditionNames
        <4>5. c.max = 1
          BY DEF conditions
        <4>6. Occurrences(h, fn) <= 1
          BY <4>2, <4>4, <4>5, Zenon DEF NoneRepeated
        <4>7. Single(h, fn)
          BY <2>2, <4>6, SingleCount, Zenon
        <4> QED
          BY <2>2, <2>4, <3>1, <4>7, Zenon DEF Single
      <3> QED
        BY <3>1, <3>2, Zenon
    <2>6. pc' # "r.identical" => pc' \notin RepairRules
      BY <2>1, Zenon DEF RepairRules, AfterRepair
    <2>7. \A fn : FirstValid(fn)' = FirstValid(fn)
      BY <2>1, Zenon DEF FirstValid
    <2>8. occ' = Count(input')
      BY <2>1, <2>2, Zenon
    <2> QED
      BY <2>1, <2>3, <2>4, <2>5, <2>6, <2>7, <2>8, Zenon DEF RepairInv
  <1>4. CASE ApplyRepair
    <2>1. /\ pc \in RepairRules /\ occ' = occ /\ input' = input /\ role' = role
          /\ pc' = "panic" \/ (pc' = AfterRule(pc) /\ Trims(h, h', Trimmed(pc)))
      BY <1>4, RepairStep, Zenon DEF context
    <2>2. CASE pc' = "panic"
      BY <1>1, <2>2, Zenon DEF RepairRules, AfterRepair
    <2>3. CASE pc' = AfterRule(pc) /\ Trims(h, h', Trimmed(pc))
      <3>1. pc' \notin {"panic", "r.identical"}
        BY <2>1, <2>3, Zenon DEF RepairRules, AfterRule, AfterRepair
      <3>2. pc' \notin {"r.identical", "r.optionless", "r.firstvalid"} =>
               pc \notin {"r.identical", "r.optionless"}
        BY <2>1, <2>3, Zenon DEF RepairRules, AfterRule
      <3>3. \A fn \in FirstOnlyNames : ValidOnes(input, fn) # {} =>
               /\ FirstValid(fn) \in Named(h', fn)
               /\ pc \notin {"r.identical", "r.optionless"} => Named(h', fn) = {FirstValid(fn)}
        BY <1>4, <3>1, FirstValidKept, Zenon
      <3>4. /\ \A p \in DOMAIN h'.Fields :
                  /\ p \in DOMAIN input.Fields /\ h'.Fields[p].name = input.Fields[p].name
                  /\ h'.Fields[p].name # "MIME-Version" => h'.Fields[p] = input.Fields[p]
            /\ \A fn : fn \notin {"Sender", "Content-Transfer-Encoding"} /\ Named(input, fn) # {} =>
                  Named(h', fn) # {}
        BY <2>1, <2>3, TrimsKept, Zenon
      <3>5. \A fn : FirstValid(fn)' = FirstValid(fn)
        BY <2>1, Zenon DEF FirstValid
      <3>6. occ' = Count(input')
        BY <2>1, Zenon DEF RepairInv
      <3> QED
        BY <2>1, <3>1, <3>2, <3>3, <3>4, <3>5, <3>6, Zenon DEF RepairInv
    <2> QED
      BY <2>1, <2>2, <2>3, Zenon
  <1>5. CASE StartWithBody
    <2>1. pc' \in {"done", "children", "part", "identical"} /\ role' = role
          /\ (role = "part" => pc' # "part")
      BY <1>5, Zenon DEF StartWithBody, Enter, AfterWithBody, context
    <2>2. role \in {"message", "part"}
      BY Zenon DEF Base
    <2> QED
      BY <1>1, <2>1, <2>2, Zenon DEF RepairRules, AfterRepair
  <1>6. CASE ApplyWithBody
    <2>1. pc \in BodyRules /\ role' = role /\ (pc' = "panic" \/ pc' = After(pc))
      BY <1>6, BodyStep, Zenon DEF ApplyWithBody, context
    <2>2. pc' \in {"panic", "done", "children", "part"} \cup BodyRules
          /\ (role = "part" => pc' # "part")
      BY <2>1, Zenon DEF BodyRules, After, AfterWithBody
    <2>3. role \in {"message", "part"}
      BY Zenon DEF Base
    <2>4. pc' # "withbody" /\ pc' \notin RepairRules
      BY <2>2, Zenon DEF RepairRules, BodyRules
    <2> QED
      BY <1>1, <2>1, <2>2, <2>3, <2>4, Zenon DEF AfterRepair
  <1>7. CASE ParseChildren
    <2>1. pc' \in {"panic", "simplify"}
      BY <1>7, Zenon DEF ParseChildren, Risky, Rule
    <2> QED
      BY <1>1, <2>1, Zenon DEF RepairRules, AfterRepair
  <1>8. CASE ParsePart \/ CallSimplify
    <2>1. /\ pc' \in {"panic", "done", "simplify", "withbody"} /\ role' = role
          /\ (role = "message" => pc' # "withbody")
      BY <1>8, LaterStep, Zenon DEF context
    <2> QED
      BY <1>1, <2>1, Zenon DEF RepairRules, AfterRepair
  <1>9. CASE UNCHANGED vars
    BY <1>9, Zenon DEF vars, RepairInv, Repaired, AfterRepair, FirstValid
  <1> QED
    BY <1>2, <1>3, <1>4, <1>5, <1>6, <1>7, <1>8, <1>9, Cases, Zenon

\* The invariant of Repair.
THEOREM RepairInvariant == Spec => [](Base /\ RepairInv)
  <1>1. Init => Base /\ RepairInv
    BY BaseInit, Zenon DEF Init, RepairInv, RepairRules, Repaired, AfterRepair
  <1>2. Base /\ RepairInv /\ [Next]_vars => Base' /\ RepairInv'
    BY BaseStep, RepairInvStep, Zenon
  <1> QED
    BY <1>1, <1>2, PTL DEF Spec

\* After Repair, if the input had a valid Date, Return-Path, Message-ID or
\* References, its first valid one is the only one.
THEOREM RepairRetainsFirstValid == Spec => []FirstValidRetained
  <1>1. RepairInv => FirstValidRetained
    <2> SUFFICES ASSUME RepairInv, Repaired, NEW fn \in FirstOnlyNames, ValidOnes(input, fn) # {}
                 PROVE  Named(h, fn) = {NthOf(ValidOnes(input, fn), 0)}
      BY Zenon DEF FirstValidRetained
    <2>1. pc \notin {"r.identical", "r.optionless", "r.firstvalid"}
      BY Zenon DEF Repaired, AfterRepair
    <2> QED
      BY <2>1, Zenon DEF RepairInv, FirstValid
  <1> QED
    BY <1>1, RepairInvariant, PTL

\* Repair loses no kind of field but Sender and Content-Transfer-Encoding.
THEOREM RepairLosesNoKind == Spec => []NoKindLost
  <1>1. RepairInv => NoKindLost
    BY Zenon DEF RepairInv, NoKindLost, Named
  <1> QED
    BY <1>1, RepairInvariant, PTL

\* The fields of a name that is not touched.
LEMMA Untouched ==
  ASSUME NEW k, Shaped(k), NEW l, NEW N, Changes(k, l, N), NEW fn, fn \notin N
  PROVE  /\ SameFields(k, l, fn) /\ Named(l, fn) = Named(k, fn)
         /\ InvalidOnes(l, fn) = InvalidOnes(k, fn) /\ ValidOnes(l, fn) = ValidOnes(k, fn)
         /\ AddressesOf(l, fn) = AddressesOf(k, fn)
         /\ OneValid(k, fn) => OneValid(l, fn)
  <1>1. SameFields(k, l, fn) /\ HeaderOK(k)
    BY Zenon DEF Changes, Frame, Shaped
  <1> QED
    BY <1>1, SameAnswers, Zenon DEF SameFields, OneValid

=============================================================================
