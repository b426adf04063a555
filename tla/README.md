# go-mail in TLA+

A model of the parts of go-mail that decide what a parsed message looks like:
the list of header fields and its cached verdict, the address parser and the token
parser, the parsers of structured fields, the two repair passes, Simplify, the
division of a multipart body, the tree of parts, the removal of duplicate
addresses, the transfer encodings, and a message that is parsed, written and
parsed again. TLC checks the modules on small instances, and TLAPS proves for all
instances what matters most about the header, the parsers of structured fields, both
repairs, Simplify, Uniquify, the multipart scan, the tree of parts, the token parser
and the transfer encodings.

go-mail is a sequential library: it has no goroutines, no locks, no persistent
state. What is hard to test in it is of another kind: some thirty rules are
applied to one mutable header in a fixed order, most of them from counts that
were taken before the first one ran; a verdict is cached and reset in some places
only; two parsers try, fail and go back over hand-made indices, one of them from
right to left; and what one function writes another has to read. The models are
about these.

The source is taken as written. It does not build as it stands (`message.go`
uses `strings.Builder` without importing `strings`, and `strings.go:869` calls
`e64` with one argument); the models follow the text of each function.

## The system

    text --ReadHeader--> Header --Repair--> --RepairWithBody--> --Simplify-->
              |                                     |
              | NewHeaderField / Parse              +-- parseMultipart: body into parts,
              v                                     |     each with a header of its own
          Field (AddressField, ContentType, ...)    +-- parseBodypart: charset and encoding

`Message.Parse` (message.go) reads the header, runs `Repair`, which does not look at
the body, then `RepairWithBody`, which does, then parses the body as a multipart
or as one part, and ends with `Simplify`. A part in a multipart goes through the
same functions in another order: `Repair`, `parseBodypart` (which calls
`Simplify`), then `RepairWithBody` with an empty body.

### Inventory

| Part | Source | Modelled by |
|---|---|---|
| Header: fields, merging, lookups, `Valid` | header.go 1-475 | `Header`, `HeaderApi` |
| `Header.Repair` | header.go 590-765 | `HeaderRepair`, driven by `MessageHeader` |
| `Header.RepairWithBody` | header.go 766-1659 | `HeaderRepairBody`, driven by `MessageHeader` |
| `Header.Simplify` | header.go 475-586 | `HeaderSimplify`, driven by `SimplifyCalls` and `MessageHeader` |
| `ReadHeader` | header.go 70-144 | fields arrive in order in `MessageHeader`; where the header ends in `MessageText` |
| `Message.Parse` | message.go 26-48 | the header in `MessageHeader`, the tree of parts in `MessageText` |
| `Part.parseBodypart` | parts.go 340-629 | `PartHeader`: its effect on the header; `MessageText`: what it stores |
| `Part.parseMultipart` | parts.go 139-215 | `Multipart`; nested in `MessageText` |
| `Message.BodyPart` | message.go 89-154 | `BodyParts` |
| Parsers of address, MIME and Date fields | fields.go 493-1254 | `FieldParse`, `FieldParsing` |
| `AddressParser`, `Address.toString` | addresses.go | `AddressText`, `AddressParser` |
| `Addresses.Uniquify`, `sameAddresses` | addresses.go, header.go | `Addresses`, `Uniquify` |
| parser: tokens, comments, encoded words, mark and restore | parser.go | `ParserText`, `Parser`; `Cursor` is what it promises |
| `e64`, `de64`, `eQP`, `deQP`, `encodeCTE`, `decodeCTE` | strings.go | `Base64`, `TransferEncoding` |
| Serialisation: `AsText`, `RFC822`, `Body`, `appendMultipart` | parts.go, message.go, header.go | `MessageText` |
| uuencode, wrapping, JSON, charset detection, top-level domains | | no, see "Not modelled" |

## The modules

**Addresses, Header.** An address is a record of name, localpart and domain. A
header is a function from positions to fields, so that a position is also the
identity of a field (the code compares pointers), with the cached `verified` and
`err`. `addField`, `RemoveAt`, `RemoveAllNamed`, `field`, `verify` and `Valid`
carry the names of the code. `UniquifyKey` is the pair of localpart and domain,
where the code joins them with "@"; the two agree unless a domain contains "@".

**HeaderApi.** A caller that makes any sequence of `Add`, `RemoveAt`,
`RemoveAllNamed` and `Valid` calls.

**FieldParse, FieldParsing.** The `Parse` functions, given what the parser below
them answered: which addresses were found, whether there was an error, whether
the text has an "@", which time a date stands for. `WellParsed` is what a parsed field
looks like; `MessageHeader` assumes it of every field that is read
(`ScenariosAssumption`), and the theorem `FieldsWellParsed` says that the assumption is met.

**HeaderRepair, HeaderRepairBody, PartHeader, HeaderSimplify.** One operator per
rule, from a header and the counts to a header. Where a rule can panic, an operator
named `...Panics` says when: nil is dereferenced, an index is out of range, an address
is written whose localpart ends with a dot (`Unwritable`; `localpartIsSensible` reads
past it, in `RemoveIdentical`, `DropSender`, the rules that set From, and Simplify), or a
text is passed to `simplify` or to the address parser that panics on it. What a rule
asks of the text of a field or of the body, where the model has no text, is an input: the component
`odd` of the body. The rules for a missing From write an address with `toString`
and `h.Add` parses it again; the operator `Reread` is what that parser finds, which need
not be the address that was written. Panics while the header is read, such as that of
header.go:121 on a value of white space, come before the pipeline and are not in it.

**MessageHeader.** The pipeline of one header, one step per rule; `occ` is the map
of counts, taken at the start of each repair and not kept up to date, as in the
code. A run-time panic ends in `pc = "panic"`. `text` holds the fields that
`ReadHeader` has still to read.

**SimplifyCalls.** A header is read and `Simplify` called on it twice.

**Multipart.** The scan of `parseMultipart`. A body is a sequence of kinds of lines
(a boundary, the closing boundary, blank, a field, text, and a last line too short
to compare). Lines end in LF: the code compares the previous byte with 31 where 13
is meant, so bare CR is not a line end.

**BodyParts.** `Message.BodyPart`, one component of the part number per step.
`append(append(cs[:i], child), cs[i:]...)` is modelled by what it does to the
array behind `cs`; whether there is spare capacity is a free choice. A trailing
dot in a part number is left out. What a number stands for, `Reached`, is said without
the walk: a part is reached if there is a path to it with one part per component.

**Uniquify.** The loop with its dictionary, one address per step.

**Base64, TransferEncoding.** `e64` a group per step, stray characters inserted on
the way, `de64` a character per step; characters are their values under `from64`.
`TransferEncoding` adds `eQP` and `deQP`, a character per step, and the dispatch of
`encodeCTE` and `decodeCTE`. Here characters are bytes, because the code compares
and divides them. Soft breaks move what is already in the buffer, as in the code.

**ParserText, Parser, Cursor.** `ParserText` says where each production of parser.go
ends in a text; a character stands for its class. `Parser` has the list of saved
states, `mark`, `restore`, the productions without backtracking as one step each, and
one step per iteration of `DotAtom`, `encodedWords`, `Text` and `Phrase`, which mark,
try and go back. A caller uses them in any order and holds marks of its own.
`Cursor` is the abstract specification, taken from the comments: a cursor that
productions only move forward, and marks that can be restored. `Parser` implements
it under the mapping in `Abstract`: between calls the cursor is that of the current
state, during a call that at its start, and the saved positions are those of the
states the caller's marks stand for. What the productions leave behind is hidden.

**AddressText, AddressParser.** `AddressText` has the productions `comment`, `domain`,
`atom`, `phrase`, `localpart` and `route`, from the right to the left over characters;
`q` holds the index, the value, the last comment, the first error and whether the
production panicked. `AddressParser` has the loop over addresses, one action per
branch of `address()`, groups and texts quoted as a whole as nested calls, plans B
and C, and `toString` for the way back. The white space that `rfc822` puts between
addresses when it wraps is one blank or two.

**MessageText.** A text, as tokens, is parsed to a tree of parts by `Message.Parse`,
`parseMultipart` and `parseBodypart`, written by `RFC822`, `Body` and
`appendMultipart`, and what was written is parsed and written once more. Each of these
is a recursive operator, as it is in the code, and a call is a step. It composes what
`Multipart`, `PartHeader`, `HeaderSimplify` and `TransferEncoding` model one by one,
each reduced to the fields and texts that matter to the way a tree is written.

## What TLC checks

| Run | Property | What it says |
|---|---|---|
| uniquify | DictExact, LoopInvariant | the dictionary is the inverse of the list being built, which represents what was visited so far |
| | Deduplicated, KeepsFirst, KeepsOrder | one address per mailbox, the first one or the first named one, in the order of the input |
| header_api | MergedOnce | no call sequence makes a second To, Cc, Bcc, Reply-To or From |
| | CachedVerdictSound | a cached good verdict still vouches for every field that is there |
| field_parsing | ParsedShape | whatever the parser answers, the field has the shape the repairs rely on |
| simplify | CorrespondentsKept | Simplify changes neither where replies go nor who sent the message |
| | ContentMeaningKept | nor how the body is read; MIME fields keep a MIME-Version |
| | KeepsValid | nor makes a valid header invalid |
| pipeline | NoKindLost, RepairOnlyRemoves | Repair only removes, and never the last field of a name (but Sender and Content-Transfer-Encoding) |
| | ContentFieldsClean | after RepairWithBody no invalid Content-* of the listed names, at most one encoding |
| | BoundaryGuessed | no multipart is parsed without a boundary if the body leaves one candidate |
| | VerdictFresh | after the repairs `Valid` is not answered from before them |
| | PanicExplained | a panic needs one of a few oddities in the input (`MayPanic`): dates or a Content-Type that a rule stumbles over, an address that cannot be written, or reads as such once written, blank text; the stale counts add none |
| | FirstValidRetained | the first valid Date, Return-Path, Message-Id and References stays, and alone |
| | HasFromAndDate | every message ends with a Date and a From; the From has an address unless it parsed without one, or the address that took its place reads as none once written |
| | GoodFromKept, FromHasSource | the guesses never replace a From that parsed, and never invent one: each address was in a field that names the sender, or is read where such an address was written, or is the postmaster or the unknown address |
| multipart | PartsOrdered | parts are numbered, not empty, in order, disjoint |
| | NothingLost, OnlyParts | every line of text between the first boundary and the end is in a part; preamble and epilogue are not, and a boundary line only if it directly follows another |
| | Terminates | the scan ends |
| body_parts | NumbersInOrder, LookupFinds | siblings stay in order and a lookup finds what is there, although creating damages the tree |
| transfer_encoding | ReadBack | decoding gives back what was encoded, whatever the encoding, with what the decoders are to ignore added on the way or not |
| | EncodedLinesBounded | no base-64 line is longer than lineLength rounded up to a multiple of four, no quoted-printable line longer than 76 characters |
| | NoSpaceBeforeBreak | no space stands before a line break of quoted-printable, hard or soft, although soft breaks move spaces; tabs and the end of the text are another matter, see `TrailingSpacesEncoded` below |
| parser | ImplementsCursor | `Parser` implements `Cursor`: a production that tried and failed leaves no trace that a caller could see |
| | ProductionsProgress | every iteration of the loops moves the cursor forward or is the last one |
| | TriedInVain | what `DotAtom` and `encodedWords` read beyond their last atom or word they give back |
| | NoSpaceBetweenEncoded | no white space is kept between two encoded words that `Text` or `Phrase` read in different iterations, as RFC 2047 asks (words in one call of `encodedWords` are joined there, and are one item of the output) |
| addresses | WrittenReadBack | a list that `toString` wrote is read back without an error: no mailbox is missing, no address is there that was not written, and if no mailbox was written twice it is the same list in the same order |
| | NothingInvented | never more addresses than "@" signs read, also after plan B starts over |
| | CallsMoveLeft | every call of `address()` starts to the left of the one before, so that the loops end |
| message_text | CanonicalForm | what `RFC822` writes is parsed to the same tree and written the same way |
| | LeavesInOrder | no line of the text gets into two parts, or before an earlier one, at any depth |

### Bounds

- uniquify: lists of up to 3 addresses (`MaxLen`) over three names, four localparts
  (two differing in case) and two domains. Three copies of a mailbox, named or
  not, is what first-named-wins needs.
- header_api: 4 fields (`MaxFields`), 2 addresses in a merged field (`MaxAddresses`).
- simplify, pipeline: a start and up to `more` fields from a pool: 4 of 13 address
  fields or of 12 MIME fields; 2 of 16 content fields with 10 bodies, or 3 with 2 bodies,
  as message and as part; 3 of 17 sender fields; 3 of 12 time fields with 4 chains of enclosing parts;
  2 of 19 fields with addresses that cannot be written or are read differently, as message and as part.
  Three is enough for two fields of one name, which is where the rules differ from
  the counts, and a third that decides between them; the pools hold fields that
  parsed and fields that did not. MCPipelineLarge.cfg has 3 content fields with all 10
  bodies (8 million states, three minutes); all properties hold there too.
- multipart: bodies of up to 6 lines, cut off or not: room for two parts with their
  boundaries, an end line, and a preamble or an epilogue.
- body_parts: the empty message, a tree the parser makes, and one a caller builds with
  gaps in the numbers; at most 6 parts (`MaxParts`) and numbers of two components.
- transfer_encoding: for base-64 up to 7 bytes (`MaxBytes`) from {0, 90, 255}, so every
  remainder modulo 3 after a full group; lineLength 0, 4, 6 and 8; one stray character
  (`MaxNoise`). For quoted-printable all strings of up to 4 bytes of 7 kinds, and
  strings of 68 to 75 bytes with the interesting ones where a line is broken; for
  `deQP` also all texts of up to 5 characters that `eQP` did not write.
- parser: texts of up to 3 of 13 tokens (`MaxTokens`), 4 calls (`MaxCalls`): a mark, two
  productions and a restore.
- addresses: all texts of up to 3 characters (`MaxChars`), all of up to 4 pieces
  (`MaxPieces`) of two sets, and all lists of up to 2 addresses (`MaxList`) written.
  Four pieces are enough for a group with a member and an address next to it.
- message_text: up to 5 pieces (`MaxUnits`) of three sets, cut off before the last line
  break or not: an outer multipart, an inner one or a message in it, and the ends of both.

Deadlock is checked for header_api, where a call is always possible. Elsewhere it is
off: these modules end in states where the function has returned
or the bound is reached.

### Fairness

`Multipart` is fair (`WF_splitVars(SplitNext)`): a loop of a
sequential function that can take a step takes it. The other modules claim no liveness; that the loops of
the two parsers end is shown by action properties (`ProductionsProgress`,
`CallsMoveLeft`): every iteration moves towards an end of the text.

## What is proved

The proofs hold for every value of the constants that meets the named assumptions:
texts, headers, bodies and lists of any length and any number of calls. Each result
about a run's property is listed with its theorem.

| Module | Theorem | Property |
|---|---|---|
| HeaderProofs | UniquifyInvariant, UniquifyDictExact | LoopInvariant, DictExact |
| | UniquifyCorrect, UniquifyKeepsFirst, UniquifyKeepsOrder | Deduplicated, KeepsFirst, KeepsOrder |
| | ApiInvariant, AddressFieldsMergedOnce | CachedVerdictSound, MergedOnce |
| | SimplifyKeepsValid | KeepsValid |
| | SimplifyKeepsReplies, SimplifyKeepsContent | CorrespondentsKept, ContentMeaningKept |
| | FieldsWellParsed | ParsedShape |
| MessageHeaderProofs | BaseInvariant, VerdictStaysFresh | VerdictFresh |
| | RepairNeverAdds | RepairOnlyRemoves |
| | RepairRetainsFirstValid, RepairLosesNoKind | FirstValidRetained, NoKindLost |
| BodyRepairProofs | BodyRepairCleans | ContentFieldsClean |
| | GoodFromSurvives, BodyRepairCompletes, FromNotInvented | GoodFromKept, HasFromAndDate, FromHasSource |
| BoundaryProofs | MultipartHasBoundary | BoundaryGuessed |
| PanicProofs | PanicsExplained | PanicExplained |
| ParsingProofs | MultipartOrdered, MultipartLosesNothing, MultipartTakesPartsOnly | PartsOrdered, NothingLost, OnlyParts |
| | ParserImplementsCursor, ParserProgress | ImplementsCursor, ProductionsProgress |
| | ParserGivesBack, ParserJoinsEncoded | TriedInVain, NoSpaceBetweenEncoded |
| | SiblingsInOrder, LookupsFind | NumbersInOrder, LookupFinds |
| TransferProofs | TransferReadBack | ReadBack |
| | TransferLinesBounded, TransferNoSpaceBeforeBreak | EncodedLinesBounded, NoSpaceBeforeBreak |

**HeaderTheorems** states nothing about a run. It says what the primitives of `Header`
do to any header (appending, merging, removing, `verify`, the first field of a
name), and what each rule of the repairs, of `Simplify` and of `parseBodypart` does. Most proofs are carried by a few
relations between the header before a rule and the one after: `Frame` and `Changes`
(only the fields of certain names differ), and in `MessageHeaderProofs` `Trims` (a rule of
`Repair` only removes) and `Condenses` (what `parseBodypart` and `Simplify` do together).

**Uniquify.** The inductive invariant is `UniquifyTypeOK /\ DictExact /\ LoopInvariant`.
The results speak of the end of the loop only; they need that each element of
`unique` represents its key among the addresses visited, and that the dictionary finds
it. **HeaderApi**: `TypeOK /\ MergedOnce /\ CachedVerdictSound`, from `ApiAssumption`
(fields are records, merged fields hold address lists).

**Simplify.** A call is one step, so there is little induction: `CallsInv` says that the
header before a call has its shape and a right verdict, and that the header after it is
what `Simplify` returns. The work is in the rules: `CorrespondentsKept` needs that
`sameAddresses`, which tests one inclusion, is equality on lists that Uniquify has
made free of repetitions; `KeepsValid` that no rule takes the last of a field that
`conditions` asks for.

**The parsers of fields**, from `TextsAssumption` (the address parser answers with a
list of addresses and an error). A call is a step, so `ParsedShape` needs no
strengthening; there is one lemma per `Parse` function. `Drafted` is what each of them
leaves before `outlawBounce`, which is the last to touch an address field, and
`OutlawedDraft` says that `outlawBounce` makes a well-parsed field of it.

**The repairs.** The invariants are layered, each inductive given those before it:

- `Base`: where the run is, the shape of the header and of what was read, that merged
  names occur once, and that a From or Content-Type that `occ` counts is still there;
- `Verdict`: where the cached verdict may be used. `Repair` runs only on headers that
  are cached as invalid, and `RepairWithBody` ends with a reset unless it returned at once;
- `RepairInv`: what `Repair` has left of the input so far. That the first valid field
  survives the removal of identical fields is the point where "first" and "only" meet;
- `CleanInv`: how far `RepairWithBody` has come with the fields it cleans;
- `FromInv`, `SenderInv`, `SourceInv`: a good From has kept its mailboxes; from which
  rule on there is a Date and a From with an address; where each address of From comes from;
- `NameInv`: the addresses in the other fields that name the sender were read, and so
  were those of From until `RepairWithBody` starts. A rule that takes an address for From takes it from one of these;
- `TypeInv`: the Content-Types are all valid or all invalid when the boundary is guessed,
  so the one that survives the later rules is one whose boundary is known;
- `CountInv`, `OddInv`: which stale counts still mean something, that no merged name was
  counted twice, and what two Content-Types look like after `Repair`. `PanicExplained` needs them all: a rule panics
  because a count and the header disagree, and these say when they may.

The assumptions are `ScenariosAssumption` (fields have the shape that their parser gives
them, `WellParsed`, which `FieldsWellParsed` proves of the parsers; a body has lines
that are not empty, and lines only if it is text) and `RepairAssumption`
(the addresses and names the rules make up are among the constants and can be written,
and `Reread` answers with a list of addresses). The proofs
sharpened three properties. A From that parsed without an address, as "(comment)", is
never given one, so `HasFromAndDate` excepts it. The rule that grades two Content-Types trims the boundary, which panics if that is a
blank, given or guessed, so this is among the causes in `MayPanic`. And in a part, whose
fields `parseBodypart` changes between the two repairs, two Content-Types are a
cause by themselves.

**Multipart**, from `BodiesAssumption`. `PartsOrdered` is not inductive; `ScanInv`
strengthens it: the last part ends before `partStart`, which the scan has passed. For the other two,
`Scanned` relates the scan, `partStart` and `last` to the delimiters behind the scan, and `Kept`
says that a line of text behind the scan is in a part or in the one that is open.

**Parser**, from `ParserAssumption`, for every text, set of charsets and number of
calls. `IInv` says that no saved state has an error, that every cursor is at most one
past the end of the text, that the marks a caller holds lie strictly below the
current state and in order, and that during a call the cursor is not before its
start. The order of the marks is what the refinement needs: it makes a restore to
one mark keep what the older ones saved. The steps of the productions rest on
one lemma each about where they end (`SpanEndIn`, `CommentEndIn`, `AtomEndIn`,
`StringEndIn`, `EncodedWordEndIn`) and on `TryUndone`: mark, try, restore gives back
the list of states. `VainInv` adds what is behind the cursor in the loops of `DotAtom`
and `encodedWords`, from lemmas on what each production ends behind (`AtomEndBehind`,
`EncodedWordBehind`). `OutInv` adds what was written last and why the next
iteration cannot write a space in front of an encoded word.

**BodyParts**, from `TreesAssumption`: the numbers of siblings ascend in the tree that
the first call is given. Creating a part may leave it twice in a list, so `TreeOK` has
them ascend weakly, and equal numbers only where the part is the same. `WalkOK` is about
a call under way: one that creates has parts left for what it has still to do, and one
that only looks has come to the one part that is reached by what it has read of the
number (`Followed`). That there is only one is what `TreeOK` is needed for, and why
the damage that creating does never misleads a lookup.

**The transfer encodings**, from `TransferAssumption`, for all strings of bytes, line
lengths and amounts of stray characters. No induction over the string is needed; the invariants
say how far encoder and decoder have come.

- `QPLinesInv`, `B64LinesInv`: every line that is complete is short enough, the line
  being written has the length the code has counted, and no space stands before
  a line break;
- `B64Code`: there is a function from places in the text to the number of characters
  before them that are part of the code, and the n-th of these carries its six bits of
  the string (`CodeOK`). A stray character or a line break leaves it where it is.
  The decoder has what the characters behind it say, with the bits of a byte that is not complete
  (`DecodedTo`);
- `QPText`: there are cuts in the text between which stand a character, an escape
  or a soft break, each for a known place of the string (`TextOK`). A soft break is put at a cut
  although it moves what was written, since every blank is cut off on both sides
  (`BlanksCut`), and the decoder stops at cuts only.

The inductive invariants were checked with TLC before they were proved, by naming the
invariant in the configuration of the run.

### Only model-checked

- Liveness (`Terminates` of the multipart scan), which is beyond the prover. `ProductionsProgress`
  is the part of it that is proved for the parser.
- `WrittenReadBack`, `NothingInvented`, `CallsMoveLeft`, `CanonicalForm`, `LeavesInOrder`: the
  productions of `AddressText` and the functions of `MessageText` are recursive operators,
  which the prover cannot use.

## Where the code and its comments differ

The run message_simple shows a disagreement and is expected to find a violation: the
comment on `RFC822` (message.go:50) says that the "return value is a canonical expression
of the message, not whatever was parsed", but a message that is no multipart, here one
inside a multipart, keeps its text in `Text` and has no `Parts`, and `Body` writes
`Parts[0]` or nothing (message.go:79). The text is gone, and parsing what was written
panics at parts.go:343. `CanonicalForm` is the part of the claim that holds.

The other disagreements met while modelling have a property of their own, which TLC
finds violated. Run `tlc -continue -config <cfg> <module>`; where the table says
"added", add the property to the configuration of the run:

| Configuration | Property | Source | What the code does, and what the comment says |
|---|---|---|---|
| MCUniquify.cfg, added | RemovesOnlyRepeats | addresses.go:1304 | The code compares localpart and domain only, so two empty groups with different names have the same key "@" and one of them is removed, though neither exists twice; addresses.go:1301 says "Removes any addresses that exist twice in the list." |
| MCHeaderApi.cfg, added | ValidTellsTruth | header.go:178 | RemoveAt, and with it Remove and RemoveAllNamed, leaves h.verified set, so Valid keeps answering for the fields that were there before; header.go:146-147 says "Returns true if this Header fills all the conditions laid out in RFC 2821 for validity, and false if not." |
| MCHeaderApi.cfg, added | NoBounceInValidField | header.go:165 | addField appends the addresses of a second To, Cc, Bcc, Reply-To or From to the first and forgets the error outlawBounce recorded for them, so a valid field holds <>; fields.go:669-671 says "Checks whether '<>' is present in this address field, and records an error if it is. '<>' is legal in Return-Path, but as of April 2005, not in any other field." |
| MCFieldParsing.cfg, added | GarbageForgiven | fields.go:560 | The rule that empties a garbage recipient field stands in a branch taken only if the field is valid and tests that it is not, so the error stays; fields.go:561-564 says "we can't detect all instances of garbage, but if it doesn't contain even one "@" and also not even one parsable address, surely it's garbage." |
| MCSimplify.cfg, added | NothingLeftToRemove | header.go:501 | When the binary Content-Transfer-Encoding is removed the variable cte is not cleared, so MIME-Version is kept or added as if the field were still there, and only a second call removes it; header.go:475-476 says "Removes any redundant header fields from this header, and simplifies the value of some." |
| MCRepairComments.cfg (MCMessageHeader) | ValidDateNotDoubled | header.go:810 | The condition tests h.Date() != nil where == nil is meant, so it holds for a header with a valid Date as well, and a second Date is added; header.go:804-805 says "If there is no valid Date field and this is an RFC822 header, we look for a sensible date." |
| MCRepairComments.cfg (MCMessageHeader) | DateReturnsNull | header.go:244 | h.field(DateFieldName, 0).(*DateField) asserts the type of a nil interface when there is no Date field, which panics; header.go:241-242 says "If there is no such field or \a t is meaningless, date() returns a null pointer." |
| MCRepairComments.cfg (MCMessageHeader) | ReceivedKept | header.go:963 | The loop asks h.Valid(), the verdict on the whole header, instead of h.Fields[i].Valid(), so every Received of a header that is invalid for any other reason is removed; header.go:955-956 says "If there is an unacceptable Received field somewhere, remove it and all the older Received fields." |
| MCRepairComments.cfg (MCMessageHeader) | OneSubject | header.go:1083 | The loop that removes every Subject after the first tests seen, which is never set, so two Subjects that are not bad both stay; header.go:1032-1040 says "Various spammers send two subject fields ... But we can handle these" and ends with "otherwise, the first field comes from the exploited software and the second from the exploiting." |
| MCRepairComments.cfg (MCMessageHeader) | SenderDroppedOnlyIfSubset | header.go:755 | The list sender is built from From, and the loop that compares runs while difference is true, which it never is, so a Sender with several addresses is dropped whatever they are; header.go:736-738 says "Sender sometimes is a straight copy of From ... If it's a copy, or even an illegal subset, we drop it." |
| MCRepairComments.cfg (MCMessageHeader) | BadReplyToForgotten | header.go:1577 | The rule asks the count taken before the repairs whether there is a From, so a From that an earlier rule supplied does not count and the bad Reply-To stays; header.go:1574-1575 says "If the Reply-To field is bad and From is good, we forget Reply-To entirely." |
| MCRepairComments.cfg (MCMessageHeader) | ReportGetsFrom | header.go:1384 | Inside the loop h is shadowed by the header of the part, so the From is put into a part that is thrown away and the report stays without one; header.go:1366-1367 says "Some crapware tries to send DSNs without a From field. We try to patch it up." |
| MCRepairComments.cfg (MCMessageHeader) | EncodingMatchesText | parts.go:579 | cte.Encoding is changed but not its baseValue, from which rfc822() writes the field, so the header still names the old encoding; parts.go:574 says "change c-t-e to match the encoding decided above" |
| MCMultipart.cfg, added | DividedEverywhere | parts.go:205 | After a boundary line i = j is already the start of the next line, which the loop at 208 then skips, so a boundary there is not seen and ends up inside a part; parts.go:140-141 says "dividing the part into bodyparts wherever the boundary \a divider occurs" |
| MCBodyParts.cfg, added | CreateAdds | message.go:147 | The result of append(append(cs[:i], child), cs[i:]...) is stored in the local cs only, and the inner append overwrites cs[i]: a new part is lost if there were none, and replaces a sibling otherwise; message.go:89-90 says "Returns a pointer to the Bodypart whose IMAP part number is \a s and possibly create it. Creates Bodypart objects if \a create is true." |
| MCTransferComments.cfg (MCTransferEncoding) | LinesAtMost | strings.go:445 | A line is ended only once it has reached lineLength, in steps of four, so it is longer if lineLength is no multiple of four; strings.go:429-430 says "returns the result in lines of at most \a lineLength characters." |
| MCTransferComments.cfg (MCTransferEncoding) | NoBoundaryLine | strings.go:588 | A soft line break may be put in front of "--": the column is then what was moved to the new line, not 0, or the dashes come from characters already written, so the test at 628 does not apply; strings.go:553-554 says "If \a from is present and true, this function also makes sure that no output line starts with "From " or looks like a MIME boundary." |
| MCAddressComments.cfg (MCAddressParser) | WrittenReadBack | addresses.go:1041 | domain() sets j to the last character inside the literal and slices up to j, so "a@[ab]" is read with the domain "[a"; addresses.go:121 says of what is written "Returns an RFC 2822 representation of this address." |
| MCAddressComments.cfg (MCAddressParser) | WrittenReadBack | addresses.go:1122 | phrase() takes the apostrophe for the quoting character of what is between the quotes, so a name with one that has to be quoted is read without it; addresses.go:121 says of what is written "Returns an RFC 2822 representation of this address." |
| MCAddressComments.cfg (MCAddressParser) | WrittenReadBack | addresses.go:843 | An address without a domain is read by domain(), which knows atoms and literals and no quoted string, so a localpart that was quoted is read as no address at all; addresses.go:121 says of what is written "Returns an RFC 2822 representation of this address." |
| MCTransferComments.cfg (MCTransferEncoding) | TrailingSpacesEncoded | strings.go:571 | Only a space before a line feed is protected: a tab there, and a space or a tab at the end of the text, are written as they are; strings.go:544-545 says "It encodes trailing spaces, as suggested in RFC 2045" |
| MCTransferComments.cfg (MCTransferEncoding) | LineFeedsAreCRLF | strings.go:584 | A CR is written only if the text has one, so a bare line feed stays bare; strings.go:541 says "In the encoded version, all line feeds are CRLF" |
| MCAddressComments.cfg (MCAddressParser) | DuplicatesKept | addresses.go:284 | NewAddressParser calls Uniquify on what it has found, so a mailbox that is written twice is read once; addresses.go:226-228 says "AddressParser does not attempt to canonicalize the addresses parsed or get rid of duplicates (To: ams@oryx.com, ams@ory.com), it only parses." |
| MCRepairComments.cfg (MCMessageHeader) | ReturnPathUsed | header.go:924 | The address is written with toString and parsed again, which for a domain literal gives another domain, or no address; header.go:877-878 says "If there is no From field, try to use either Return-Path or Sender from this Header" |
| MCMessageComments.cfg (MCMessageText) | Canonical | parts.go:343 | parseBodypart reads rfc5322[0] before it asks whether there is any text, and an empty part is written as no text at all; message.go:50-51 says "The return value is a canonical expression of the message, not whatever was parsed." |
| MCMessageComments.cfg (MCMessageText) | Canonical | parts.go:31 | appendMultipart writes the boundary that was received although the enclosing multipart has the same one; message.go:50-51 says "The return value is a canonical expression of the message, not whatever was parsed." |
| MCMessageComments.cfg (MCMessageText) | Canonical | parts.go:569 | The rule that leaves PGP data unencoded does not ask needsQP in the case of octet-stream, so a line that is the boundary ends the part when it is read back; message.go:50-51 says "The return value is a canonical expression of the message, not whatever was parsed." |
| MCParser.cfg, added | ProductionsReturn | parser.go:587 | require() quotes what follows in its error, and simplify panics on text that is only white space, so Text() does not return for "=?x?q?x "; parser.go:243-245 says "Steps past a MIME encoded-word (as defined in RFC 2047) and returns its decoded unicode representation, or an empty string if the cursor does not point to a valid encoded-word." |

## Not modelled

- `parseParameters` and the text, URL and list fields of fields.go, and the layouts of a date: functions from a text
  to a value with the token parser, whose productions are modelled. What `Parse` makes
  of their answers is in `FieldParse`.
- In `AddressParser`: the branches for encoded words in angle brackets (addresses.go
  711-734), VMS addresses (763-777) and dates taken for addresses (805-827);
  backslashes, digits and 8-bit text. Their branches
  share the productions that are modelled, and would multiply the alphabet. The lists that
  are written have no localpart that ends with a dot; the repairs have (`Unwritable`), and what
  `assertSingleAddress` does to them is in `WordPanics` of `HeaderRepairBody`.
- What an encoded word decodes to, `encodeWord`, uuencode and wrapping (strings.go): pure
  functions of bytes and charsets, with no state and no order of steps.
- Charset detection (`guessTextCodec`, `guessHtmlCodec`): rests on an external library; its
  outcome is an input of `PartHeader`.
- JSON of headers: `encoding/json` does the work, and the one change of state is `Add`.
- The table of top-level domains: generated data; `TldLengths` are the lengths that plan B uses.
- In `MessageText`: folded fields, 8-bit texts, and messages whose fields the repairs
  change, which are the subject of `MessageHeader`.

## What could come next

1. The answers of `AddressParser` as the inputs of `FieldParse`, and those of `Parser` as
   inputs of a model of `parseParameters`.
2. Proofs: `CallsMoveLeft` of `AddressParser`, once the productions of `AddressText` are
   written as recursive functions.
3. Refinement: the tree that `Multipart` builds is an initial tree of `BodyParts`.
