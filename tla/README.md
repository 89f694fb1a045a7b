# Verification of lvrsrc

TLA+ models of the RSRC container library, of the commands and the browser
viewer built on it, of the codecs that read and write the payloads in a
container, and of what is made of them: types, values, block diagrams, diffs;
the TLC configurations that check them; TLAPS proofs of what matters most. Every
definition is translated from the source; `PROJECT.json` ("map") says from
which lines, and lists the hazards the properties are aimed at.

## 1. The system

`lvrsrc` reads, edits and writes LabVIEW RSRC files. A file is a container:
two copies of a header, a data section with the payloads of *sections*, and an
info section with a list of *blocks* (all sections of one four-letter type),
the section descriptors, and a name table. Sections refer to their payload and
to their name by offset, several may share an offset, and the name table has
no length: what follows the last name is an opaque *raw tail*. Most of the
difficulty of the code comes from these offsets. The library is sequential Go;
only the viewer around it is asynchronous.

### Inventory

| component | state | operations | what is hard | what makes it correct |
|---|---|---|---|---|
| parser (`internal/rsrcwire/parser.go`, `internal/binaryx`) | none | image to file, strict or lenient | offsets are arbitrary; the name table has no length; a lenient parse carries on; positions are sums of 32-bit words | reads where the format says; names and raw tail are cut at the right byte |
| serializers (`internal/rsrcwire/serializer.go`) | none | preserving, canonical | every offset is recomputed while the file in memory keeps the old ones; grown names collide | what is written opens strictly and holds the same; rewriting is stable |
| validator (`internal/validate`) | none | list of issues | must find again what the parser's dropped issues said; overlap by neighbours only | clean output, no damage missed |
| library file (`pkg/lvrsrc`) | the file in memory | open, write | one value is edited and written many times | behaves like a set of named sections |
| metadata edits (`pkg/lvmeta`) | edits the file in memory | `SetName`, `SetDescription`, structural gate | shared name entries; rollback when the gate refuses | only the target changes; nothing unreadable passes |
| repair (`internal/repair`) | none | mends what the validator objects to | several damages at once; must never guess a name | mends all or refuses |
| commands (`cmd/lvrsrc`) | files on disk | rewrite, set-meta, repair | outputs are truncated and written in place; output may be input; writes fail, the process is killed | exit 0 means a faithful output; a refusal leaves files alone |
| payload codecs (`internal/codecs`) | the stream a value was inflated from | decode, encode, validate, look up | the stream goes stale when a value is edited; numbers have short and long forms; entries of link lists do not say where they end; labels are found by guessing | what is read is written back; an edit is written or refused; Validate objects to what Decode refuses |
| heap codec (`internal/codecs/heap`) | position and open scope | bytes to entries, entries to a tree | every number in an entry has an escape of its own; scopes close by position and need not balance | entries take up their stream; the tree is the nesting; links agree |
| semantic model (`pkg/lvvi`) | the file it was made from, three decoded resources | resources and issues, types, literals, flattened data, limits, defaults; class context, texts, object IDs, wires and their ends | two ways to count types; several readers of the same bytes; types that contain themselves; IDs are mentioned before they are declared | readers agree and end; a value has the type of its own object; a text has the class, owner and role of the scopes around it; canonical declaration, closest anchor |
| diff (`pkg/lvdiff`, `diff` command) | none | two files to a list of items, an exit code | equal keys; payloads that decode on one side or on none; equal values in different bytes | an item for each thing that differs, none for what does not |
| scene (`internal/render`) | none | heap tree to drawing | terminals inside terminals; the scene and the lookups decide separately where a wire may end | nothing lost or drawn twice; declared wires are drawn |
| viewer (`web/app.js`, `cmd/lvrsrcwasm`) | the page | drop, choose, clear, panel modes; loading the engine | loads overlap each other, the engine and the buttons | the page shows what the state says; every load ends |
| coverage, oracle, JSON export, read-only commands, tag generator | none | report, format | | not modelled (section 8) |

Interaction: commands and viewer call `lvrsrc.Open`, which calls the parser.
Edits encode with the codec of their resource, serialize and parse the whole file before and after (the gate) and
validate both results. Writing serializes. `pkg/lvvi` asks the heap codec for
a tree and projects it, `internal/render` asks `pkg/lvvi` for the tree and the
wire ends. `pkg/lvvi` and `pkg/lvdiff` decode payloads with the codecs, which
know nothing of containers. There are no callbacks, and no state outlives a call but the file
in memory, the files on disk and the page.

## 2. Modules

The plan was to model, in this order: the container with the edits on it, the
commands that leave files behind, the arithmetic of positions, the one
asynchronous part, the reading of block diagrams, and then the payloads: the
codecs, what the semantic model makes of them, and the diff. What comes next
is in section 8.

| module | models | builds on |
|---|---|---|
| `Rsrc` | image, file, parser, both serializers, validator codes | |
| `LvMeta` | the two edits and the gate, on a file in memory | `Rsrc` |
| `Session` | a program that opens, edits, writes and opens again | `LvMeta` |
| `Vi` | abstract: a file without bytes, offsets and tables | |
| `SessionRefinesVi` | the mapping under which `Session` implements `Vi` | `Session`, `Vi` |
| `Repair` | which errors repair takes on, the rebuilt name table | `LvMeta` |
| `Cli` | rewrite, set-meta and repair step by step, with failures and crashes | `Repair` |
| `Bounds` | every position the parser computes, the caps, 32-bit sums | |
| `Viewer` | the page: engine, loads, Clear, panel modes | |
| `Heap` | the walk over a tag stream | |
| `Cells` | reading fields off a sequence of cells: strings, words of variable size | |
| `Links`, `LinkTargets` | lists of links, their paths and typed targets | `Cells`, `Links` |
| `Codecs` | decode, encode and validate of every payload, the envelope of heaps and type lists, the registry | `LinkTargets` |
| `TypeList` | the list of types, literals, flattened data, limits, scalars | `Cells` |
| `HeapEntries` | the bytes of a heap entry | `Cells` |
| `WireTables` | the bytes of a wire table and its shapes | `TypeList` |
| `Payloads` | payloads put together piece by piece, with the properties of all readers and writers | `Codecs`, `HeapEntries`, `WireTables` |
| `Wires` | class context, object IDs, wire ends and their anchors | `Heap` |
| `TypedHeap` | which type the literals, defaults and limits in a heap have | `Wires`, `TypeList` |
| `Texts` | the texts in a heap, with their owners and roles | `TypedHeap` |
| `Scene` | what is drawn for a tree, and which wires | `Wires`, `WireTables` |
| `Model` | what the semantic model says of a file | `Codecs`, `TypeList` |
| `Diff` | two files, the second edited step by step, and the diff of them | `Model` |
| `RsrcProofs` | lemmas on the writers (folds, counts, sorting, places of names, order of blocks, what `Emit` makes is an image), on reading back what was written (entries do not overlap, names, payloads, raw tail, a second rewrite), on the two edits and on what the gate decides | `LvMeta` |
| `SessionProofs` | theorems on sessions, with the steps of the refinement | `SessionRefinesVi`, `RsrcProofs` |
| `CliProofs` | theorems on the commands | `Cli`, `RsrcProofs` |
| `BoundsProofs`, `ViewerProofs` | theorems | `Bounds`, `Viewer` |
| `HeapProofs` | theorems on the walk, the lookups in its tree, its texts, its types and the scene | `Scene`, `Texts` |
| `DiffProofs` | theorems on the diff, with lemmas on the codecs it compares by | `Diff` |
| `PayloadsProofs` | theorems on the readers of payloads | `Payloads` |
| `MCNames`, `MCData`, `MCCli`, `MCBounds`, `MCViewer`, `MCHeap`, `MCPayloads`, `MCDiff` | instances for TLC | their component |

Definitions named as mutants in their comments (`SparsePlace`, `SaveTruncatesFirst`, ...)
are plausible bugs: put in the place of the definition beside them, each makes
TLC refute the property it is listed with in `PROJECT.json`.

## 3. How state and actions correspond to the code

**Rsrc.** An *image* is what a file on disk holds: the two header words, the
blocks as sequences of section identities, the descriptors (type, index, name
offset, data offset), the data section as payloads at offsets, and `tail`, the
bytes behind the section table, as a sequence of bytes of `ByteMod` values. A
*file* is `lvrsrc.File` after a parse: the same descriptors with the resolved
name and the payload, the name table as a function from offsets to names, and
the raw tail. Names are kept as bytes because everything that can go wrong with
them (sharing, overlap, gaps, the raw tail, a length byte that wraps) depends
on bytes; a name of `ByteMod - 1` bytes has maximal length, 255 in the code.
Payloads are classes: length, rank under `bytes.Compare`, and the
objections of the STRG codec. A section has an identity so that the properties
can follow it; neither parser nor serializer looks at it. `Parse` is
`ParseWithOptions`, `ParseFails` its error returns, `Serialize` and
`SerializeCanonical` the two modes of `serialize`, `ErrorCodes` the errors
of `validate.File` that a file which parsed can raise in a session.

**LvMeta, Session.** Edits are operators from a file to a refusal or an edited
file; `GateRejects` is `runStructuralCheck` with its baseline. `Session` has
the variables `disk`, `mode`, `file`, `last` and the actions `Open`, `Rename`
(`SetName`), `Describe` (`SetDescription`), `Write` and `WriteCanonical`.
`file` keeps the offsets it was parsed with, as in the code.

**Vi.** A set of sections with type, name and payload; renaming changes the
name of the one LVSR section, describing sets the payload of the one STRG
section, saving stores and opening fetches. `SessionRefinesVi` maps the file in
memory and the image to what they hold (`Contents`); a step of `Session` is a
step of `Vi` or changes nothing there.

**Cli.** `fs` maps paths to images, `Torn` (truncated) or `Absent`. A command
moves through its program counter: open, then create and encode (rewrite) or
describe, rename (set-meta) or mend (repair), then save, fill, check. Each
write may fail and `Crash` may happen between any two steps. `before` remembers
the files at the start, for the properties.

**Bounds.** The parser as a sequence of reads at computed positions. The words
found in an arbitrary file are chosen freely; in a file the serializer laid out
they are the ones it computes. `TablePosition` wraps at `WordMod`, everything
else is taken in 64 bits, as in the code.

**Viewer.** One action per handler or continuation: `Begin` runs up to the
first wait of `processFile`, `Poll` is the 50 ms check of `waitForWasm`,
`Arrive` the rest. `asked`, `kept` and `alone` are history variables.

**Heap, Wires, Scene.** `Heap` has one action per entry of the stream; `cur`
is the variable `parent` of `Walk`, `up`, `down` and `roots` the links of the
tree. `Wires`, `TypedHeap`, `Texts` and `Scene` are pure functions of the finished
tree; positions in `flat` stand for the indices of `HeapTree.Nodes`, and 0 for -1
and nil. An entry carries the bytes that are read from it: of a wire table, a
type entry, a literal, a text, a role. Tag `text` stands for the tag number 3,
which means a text in two classes only.

**Cells, Codecs, Links, LinkTargets.** A payload is a sequence of cells; a cell
is one field of the code, or one byte where bytes matter (lengths, text,
padding, variable-size words). A decoder is an operator from a payload to the
set of what it reads: one value, or none where the code returns an error; an
encoder likewise. A codec is a record with the shape of its payload, and
`Decode(c, p)`, `Encode(c, v)`, `Validate...` dispatch on the shape as the
registry dispatches on the type. zlib is external: a stream is the data behind
a form mark, inflating accepts either form, deflating writes one, so that a
cached stream and one made anew can differ although they hold the same. The
searches for the end of a link (`EntryEnds`), for the padding before a path and
for the label of a type (`SplitTrailingLabel`) try the same candidates in the
same order as the code.

**TypeList, WireTables, HeapEntries.** The readers of numbers: a byte has
`ByteMod` values, the longest number `MaxWord` bytes. `Unflatten` is
`unflattenValue` with its depth bound; a record of a type list shorter than its
header is modelled as the end of the program, which it is (the slice of its
body runs backwards). `HeapWire`, `ChainAutoPath`, `LeftwardChainPath` and
`TreeEndpoints` have the names they have in `wire.go`. In `HeapEntries` the
command word is three cells (size class, attribute bit with scope, tag), and a number
behind an escape takes one cell or two.

**Payloads.** The variables are a family and a payload; the one action `Grow`
appends a piece, so that every payload over the pieces of the family up to its
bound is reached. The properties give it to the readers and writers of the
family.

**Model, Diff.** A file is a header, blocks and sections with payloads of
cells. `Model` answers what `Model`'s accessors answer. `Diff` has the files
`a` and `b` and one action per kind of edit a program can make to `b`;
`DiffItems` is `FilesWithOptions`, `DecodedItems` the differ registered for a
codec. Lists of structs below a decoded value are left out.

## 4. What the runs check

| run | asks | bounds, and why they are enough |
|---|---|---|
| `names` | do sessions with renames and rewrites of sound and of damaged files keep names, contents, raw tails and stability, is what they write clean, and does the validator find each issue the parser met and no other? | both modes; three sections; eight tables (one to three names, nested names, a gap, a raw tail, an entry cut off), offsets 0..3 or none, a byte behind the info section, headers that differ in every damaged file, so that the validator has several issues to find at once; renames to the empty name, one of maximal length (2, `ByteMod` 3) and one too long, at most 5 bytes of tail on disk: every way two sections share, overlap, lack or miss entries, and sessions of several renames and writes |
| `data` | payload regions, block order, descriptions, the gate; does a session implement `Vi`? | both modes; regions that are shared, overlap or touch, two LVSR or STRG sections or none, a name the VI shares or no names, unprintable types, ties in canonical order, descriptions that fit and exceed the payload cap (8) |
| `cli` | what is on disk when a command has ended, in whatever way? | 11 commands in any order on 48 images with one damage or several, output beside or onto the input, a crash or failed write at each step |
| `bounds` | do accepted files keep their tables in the info section, and are written files read as they were laid out? | words of 16 values with sums that wrap, sizes below, at and above the word size, up to two blocks of two sections, payloads at and above the cap |
| `viewer` | is the page true to its state, are loads answered, do they end? | three loads of two small files and one too large, two modes: enough for two overlapping loads and one that follows |
| `heap` | does the walk build the nesting, do the lookups find what they promise, is everything drawn, has a value the type of its object, and a text the owner and role of its place? | every arrangement of up to 4 of 8 kinds of entries before or behind a wire with two ends, thirteen wire tables of all shapes, broken entries, `MaxClimb` 3 instead of 128 so that it is reached; every sequence of up to 5 of 8 kinds of objects, type entries, literals and limits; type numbers at, below and above what an ID holds (`IdMod`, one byte of two for four of eight), with one offset into the list (`Shift` 1: 0 would hide a missing one); a text, a list of items or half a list behind every sequence of up to 4 scopes, ends and roles, and roles behind it, where the climb of 3 ends |
| `payloads` | do readers and writers of payloads undo each other, notice edits, agree with Validate and with each other? | every payload of a family up to 3 to 15 cells: at least one value of each kind below, at and above every size the family distinguishes; link lists of up to two entries with padding and decoys; type lists of up to three types, clusters of clusters and of themselves included; two heap entries in a row; chains of up to six numbers; edits to numbers below, at and above the short and the long form (`WideMod`, 2^31 in the code) and to strings longer than their length field can say (`MaxLength` 8 for 255, `MaxWordLength` 15 for 65535) |
| `diff` | is a diff complete and no more, and do the values, lists, connector pane, dependencies and warnings of the semantic model agree with it? | five files, up to three edits of any kind, payloads that decode, that hold equal values in different bytes, and that fail, for one reason told by the same text or for different ones (lengths of a version, no stream, a stream cut off), two indices, duplicates of sections and blocks; a connector pane with its types, a list of links |

Four runs look for a violation, each of one statement of a comment, a test or a
document:

| run | statement | what the code does |
|---|---|---|
| `dangling_name` | `name.go:18-19`, a rename preserves the other sections' names | in a leniently opened file the new entry may be placed where a dangling offset points, and that section takes over the name |
| `no_baseline` | `description.go:28-30`, all gates apply to a description | a leniently opened file with a dangling name cannot be serialized, so the gate has nothing to compare with (`post_edit.go:58`) and lets a description above the cap pass; a rename mends the name, the file is written and cannot be opened |
| `refused_rewrite` | `docs/safety-model.md:9-10`, unknown sections are preserved | `rewrite` truncates its output before it serializes; a file it cannot serialize, rewritten onto itself, is lost |
| `stub_only` | `wire_anchor.go:23-25`, an ID that only stubs mention is drawn at their terminal | the index holds stubs too (`heap_id.go:78-91`), so the search that starts there ends at the stub; the test of the promise deletes the ID from the index first (`wire_anchor_test.go:123-142`) |

Deadlock is checked in every run but `heap`, whose walk ends, `payloads`, whose
payloads grow to their bound, and `diff`, whose edits are counted.
Invariants are evaluated in every state, also between an edit and the write
that follows: `Written` in `Session` is what either writer *would* produce.

`names` starts from files that dangle as well as from sound ones. Under dangling
names a session does not implement `Vi` (`dangling_name` and `no_baseline` show
how), so `ImplementsLibrary` is checked by `data`, whose names resolve, and is
proved for every file in strict mode.

`GateStopsOversizeOnly`, `OnlyTargetRenamedStrict` and `ImplementsLibrary` are
properties of steps. `ValidatedInInfo` and `WrittenIsRead` except files of
2^32 bytes and more, `RewriteStable` and `CanonicalStable` files with names of
maximal length; both exceptions are stated in the property. `RegionEnd` is a
sum without a bound, while `validate.go:175` takes it in 32 bits; a region that ends
beyond 2^32 is in no image of a run, and `OverlapFound` and its theorem are about
sums that do not wrap.

Some hazards are what the code does, and the properties say what holds outside of
them. Loads that overlap may answer in any order, undo a Clear or hide each other's
indicator: `WaitingIsAnswered` and `LoadingIsTrue` are about a load that is
alone. Of several sections with one key the diff compares the last and the model
decodes the first: `DiffIsComplete` counts the last, `ModelFollowsDiff` is about
resources held once, and `OverviewFollowsDiff` says that the model warns, of the
three resources it decodes at once, where the two look at different sections. A type
record that ends the program is an outcome `RecordsAreWhole` permits.
`AnchorIsClosest` claims nothing of an ID only stubs mention where the first
stands in a terminal, which `stub_only` shows. Numbers too large for their field or
for an ID are not left out: `EditsAreRead` and `TypesComeFromOwnObject` say exactly
what the code makes of them.

## 5. Fairness

Everything but the viewer is sequential code that does what it is called for:
safety only. In `Viewer` the browser settles the fetch of the engine, settles
the read of a file and fires its timers (weak fairness of `EngineSettles`, of
`Poll` and of `Arrive` for each load); nobody has to drop a file or click. The
first assumption is needed: `waitForWasm` has no timeout, so under a fetch
that never settles a load waits for ever. `LoadsEnd` says that this is the only
way.

## 6. What is proved

For every value of the constants that satisfies the named assumptions:

| theorem | property | argument |
|---|---|---|
| `SessionProofs!TypeCorrect` | `TypeOK` | `WellFormed` adds that the identity of a new STRG section is free; the work is in lemmas on the writers: folds, counts and places of the name table stay within the naturals, and what `Emit` makes is an image |
| `NamesAlwaysResolve` | `NamesResolve` | an entry is rewritten only when no other section uses it, and a new one lies behind all others |
| `RenameIsLocal` | `OnlyTargetRenamedStrict` | the same three cases of a rename |
| `WritesKeepContents` | `RewriteKeepsContents` | `ReadBack`: whichever way names are placed, entries are disjoint, none is cut off, and payloads lie apart; so each section finds its name and its payload at the offsets it is written with |
| `WritesValidate` | `WrittenValidates` | headers are written twice from one value, each name offset is one of the table, and payloads one behind the other |
| `RawTailIsKept` | `RawTailKept` | wherever the parser ends the last name, it is not behind the first byte of the raw tail |
| `RewritingIsStable` | `RewriteStable` | a name below maximal length ends where its entry does, so the table is as long again |
| `CanonicalIsStable` | `CanonicalStable` | sorting sorted blocks changes nothing, names and payloads are numbered by first use and keep that order, and the places are the same |
| `GateIsExact` | `GateStopsOversizeOnly` | `GateDecides`: a file and its round trip differ in the payloads above the cap only |
| `ValidatorSeesParseIssues` | `ValidatorFindsParseIssues` | header words, name offsets and the offsets the table answers to pass through the parser unchanged, so the validator looks at the same sections with the same condition |
| `NoOverlapIsMissed` | `OverlapFound` | of all overlapping pairs take the one least apart in the order of offsets: it is adjacent |
| `StrictSessionIsLibrary` | `ImplementsLibrary` | in strict mode only (`OpenModes \subseteq {"strict"}`): initial states map to initial states, and `Open`, `Rename`, `Describe` and the writes each map to a step of `Vi` or a stutter |
| `CliProofs!RefusalTouchesNothing` | `RefusalLeavesFiles` | `CliInv`: until the output is touched the files are those at the start. The property says nothing while a command runs, so it is not inductive |
| `SuccessDelivers` | `SuccessIsFaithful` | `CommandInv`: which verb is at which step (`VerbFits`), what the file in memory carries of the input (`MemoryFits`), what the output holds (`OutputFits`); the end follows from the lemmas behind `WritesKeepContents` |
| `RepairIsExact` | `RepairMendsWhatItCan` | the same invariant; what repair takes on is what writing mends |
| `BoundsProofs!TablesInInfo` | `ValidatedInInfo` | `BoundsInv`: the header fits, `pos` is the wrapped sum, `lowest >= pos`; a valid offset in a file below 2^32 bytes cannot wrap |
| `WrittenFilesAreRead` | `WrittenIsRead` | `WrittenInv`: in a written file `pos`, `blockPos`, `sectionPos` and `namesStart` are the positions of the layout (`Places`, `WordsArePlaces`), each descriptor lies before the end of the table and each payload in the data section |
| `ViewerProofs!DrawingIsCurrent`, `RequestsAreAnswered`, `IndicatorIsTrue` | `ResultsFollowState`, `WaitingIsAnswered`, `LoadingIsTrue` | `ViewerInv`: only a ready engine reads, and a load nothing has overlapped is the newest, still has the page of its beginning, and is the one the indicator is for |
| `HeapProofs!LinksAlwaysAgree` | `LinksAgree` | `HeapInv`: types, `cur` is an open entry or none, child lists hold walked positions only; lemmas say what appending an entry does to parents, lists and roots |
| `TreeIsAlwaysNesting` | `TreeIsNesting` | `NestInv`: `cur` is the innermost scope open at the end of the stream. Nesting is defined by counting the scopes that open and close between two positions; the lemmas split that count |
| `CanonicalAlwaysWins` | `CanonicalWins` | the scan of a prefix stands at its first canonical declaration, or its first mention |
| `AnchorsAlwaysClosest` | `AnchorIsClosest` | `NearInv`: an entry hangs on the one before it, its parent or its parent's parent, so a subtree has no gap and the scan of the stream behind a declaration is a search of what it holds. IDs only stubs mention are excepted (`StubOnly`) |
| `SceneAlwaysComplete` | `SceneIsComplete` | `SceneIs`: which terminals stand around an entry is decided by its parent alone, so what `buildLayoutItem` and `collectNestedTerminals` reach going down is what the property says looking up |
| `DeclaredWiresAlwaysDrawn` | `DeclaredWiresAreDrawn` | `DeclaredEnd`: by `AnchorIsClosest` the anchor of such an end is a terminal or holds one, and by `SceneIsComplete` that one is in the scene |
| `TypesAlwaysComeFromOwnObject` | `TypesComeFromOwnObject` | `GoverningIs`: the scan for the governing type goes back over what the object holds, which by `NoGap` is a stretch of the stream. Of a limit the entry its object names first is compared, and the number there as the code cuts it to an ID (`NamedId`) |
| `TextsAlwaysKeepContext` | `TextsKeepContext` | `NearestIs`: climbing `MaxClimb` entries finds the nearest of a set if it is that near, for the class, the owner and the role alike |
| `DiffProofs!DiffAlwaysComplete` | `DiffIsComplete` | `DiffInv`: edits leave files behind, of blocks with a section at least. `LastExists`: of several entries with a key the map keeps the last, the one the property looks for; then each item is traced to its one place (`SectionItemAt`, `BlockItemAt`) |
| `DecodedItemsAlwaysMeaning` | `DecodedItemsAreMeaning` | `StringsUnique`, `DecodeUnique`: a payload is read in one way at most; values without their streams are equal exactly if their fields and lists are (`NoValueItems`), and an error has a text (`ErrorHasText`); that two texts are equal where the code's are is in `ErrorText` |
| `ModelAlwaysFollowsDiff` | `ModelFollowsDiff` | `FlattenSparse`: with one section at most, that of the only block which has one is all there is of a type; what the model says depends on the values without their streams (`ViewIs`), so `DecodedMeaning` applies |
| `PayloadsProofs!ErrorsAlwaysReported` | `ErrorsReported` | codec by codec (`AllReported`): what Validate looks at decides whether Decode finds its string or its stream (`StringIs`, `StringsRefused`, `PackedReported`), and of a heap there is one reading at most |
| `ReadersAlwaysAgree` | `ReadersAgree` | `ValuesExist`: the depth bound makes the nested reader exist; `BigEndianRange`: what one or two bytes can hold, so each way of extending a sign can be compared (`SignedAgree`, `UnsignedAgree`) |
| `RecordsAlwaysWhole` | `RecordsAreWhole` | of type lists (`ListsAreWhole`): each record stands where the lengths of those before it end (`StartIs`). Of heap entries (`EntriesStayWhole`), part by part up to the whole stream: what is read fits its shortest form in the cells it came from and fills them only with itself (`EntryIsRead`), and the shortest form is read as the same entry (`EntryIsReadAgain`). `WalkExists`: every entry takes up cells, so the walk ends |

The theorems on sessions share one invariant, `SessionInv == WellFormed /\
NamesResolve /\ FileRules`. None of the properties is inductive alone: that
names resolve after a rename needs the types of the offsets, and that what is
written can be read needs `FileRules`: a name a section carries is the one the
table has behind its offset, and in strict mode every payload is within the cap
(`Fits`), which the gate keeps. In lenient mode it does not keep it, and the
attempt to prove that it does is what led to the run `no_baseline`.

Lemmas about what is computed along a sequence (sums of lengths, the scan of a
heap, the way up and down a tree) cannot use the library's induction theorems.
They take the least number that fails instead (`LeastNumber`, from
`WFMin` and `NatLessThanWellFounded`). For a recursive function they first show that one
exists, then that it does what is claimed.

Assumptions: sections are finitely many, `ByteMod`, `MaxLen`, `MaxClimb` and the
like are numbers (`SectionsAssumption`, `ByteModAssumption`, `MaxLenAssumption`,
`ClimbAssumption`); block types are strings and none of the canonical ones is
unprintable (`TypesAssumption`); sizes of headers and descriptors are positive
and a header is shorter than the largest word (`SizesAssumption`); a layout has a
block, and each block a section, since both counts are stored as one less
(`LayoutsAssumption`). The inputs have their types (`InitImagesAssumption`,
`InitFilesAssumption`, `NewNamesAssumption`, `DescriptionsAssumption`,
`OpenModesAssumption`, `CommandsAssumption`, `InputsAssumption`,
`ViewerAssumption`, `EntriesAssumption`, `StreamsAssumption`, `DataAssumption`,
`FilesAssumption`, `EditsAssumption`, `FamiliesAssumption`, `BlobsAssumption`,
`EntryHeadsAssumption`), where an image
has at most one payload at an offset of its data section and does not use the
identity kept for a new section (`SpareAssumption`). TLC evaluates all of them
in the runs.

## 7. What is only model-checked

- Liveness (`LoadsEnd`): the prover has no rules for fairness and ENABLED.
- `OverviewFollowsDiff`: of it `ModelAlwaysFollowsDiff` covers what the model says of
  single resources; the lists, the connector pane and the warnings are not proved.
- `RoundTrip`, `EditsAreRead`, `ReadsWhatCanBeRead` and `DataIsReadWhole` of
  `Payloads`. Each compares what two readers, or a reader and a writer, compute
  along a payload of any length: the claim about all inputs is an induction over
  data, for each codec another one, as `RecordsAlwaysWhole` carries it out for
  type lists and heap entries.
- `ImplementsLibrary` for files opened leniently whose names resolve (`data`).

Disagreements seen without a run of their own:

- container: the canonical writer sorts blocks and sections, against its comment
  and the help text of `--canonical` (`serializer.go:24-25`, `main.go:269`) and
  in keeping with `README.md:131`; bytes between two name entries are written as
  zeros by the preserving writer (`serializer.go:377`, against `README.md:25`);
  the sum behind "block info offset beyond info section" is taken in 32 bits, so
  an offset that wraps is accepted (`parser.go:318-320`); the rebuilding of the
  name table in repair can never succeed on a file that was parsed, because a
  dangling offset leaves no name to rebuild from (`RepairMendsWhatItCan`);
  the consumed byte count of a name (`reader.go:90`) is 0 for one of 255 bytes,
  since `int64(1 + ln)` is computed in 8 bits (line 105), and the raw tail starts
  too early: `RawTailKept` and `RewriteStable` say what comes of it.
- codecs: the writers of numbers in two or four bytes are called the inverse of
  the reader (`varsize.go:29`, `dthp.go:137-139`), but from 2^31 on the mark of
  the long form takes the place of the top bit, and nothing is refused
  (`dthp.go:140-149`, `tdcc.go:130-134`, `varsize.go`): 2^31 comes back as 0.
  `EditsAreRead` says exactly what is read of such a number (`ReadAs`,
  `TargetReadAs`) and allows it of no other. Validate of LIvi returns with a warning for an unknown marker before
  it decodes, so a list that does not decode is reported without the error of
  `docs/resources/livi.md:55` (`ErrorsReported` says where); `LookupKind` is said
  to answer KindUnknown for ambiguous aliases, but its table takes the first kind
  that claims one (`linkobj/kind.go:279-284`, `296-298`).
- semantic model: the number a type entry holds is called the type ID
  (`datafill.go:114-115`), but it is cut by `uint32(v)` after it was checked
  (lines 198-201): 2^32 passes as at least 1 and gives ID 0, 2^32 + 1 names the
  first type (`TypesComeFromOwnObject`, by `NamedId`); zero is called a valid type ID to look up with `TypeAt`, which
  refuses it, and `TopTypes` says its indices count from 1, while literals use
  them from 0 (`model.go:160`, `298`, `typedconst.go:200`); the registry is said
  to mirror the one of `pkg/lvmeta`, which has two codecs (`model.go:500-501`);
  clusters that take up the same default are said to decode to the same value
  (`flatvalue.go:288-290`), but two clusters of other types of the same width do
  not; `wire.go:17-24` calls the numbers of an auto-routed chain LEB128, the
  decoder reads bytes with an escape; `terminal.go:12-14` gives the order of
  bounds as top, left, bottom, right, `bounds.go` reads left, top, right, bottom;
  `WidgetKindForNode` takes the class of an object from its tag, which
  `heap.go:212-215` calls wrong; `OF__text` is said to mean another field
  outside `SL__textHair` (`text.go:25-27`), but inside `SL__fontRun` the number
  means a text too (`heap/tags_gen.go:2167`); an entry that opens a text and the
  one that closes it are two empty texts, since no scope is asked for
  (`text.go:42-55`).
- scene: `UnresolvedAtHeap` is said to count the ends `WireTerminalAnchor` cannot
  place, which are counted as `MissingFromScene` (`scene.go:103-114`, `864`).
- diff: the command says "files are identical" (`cmd/lvrsrc/diff.go:134`) of
  files that differ in the raw tail, in unused names, or in the order of blocks or
  sections, and of a file with a section more, where it has the index, the name and
  the payload of the one compared: of several with one key the last is kept
  (`lvdiff.go:299`, against the additions of `lvdiff.go:11-12`).

## 8. Not modelled, and what comes next

Left out of the modules above: file kind and compression labels, validator
warnings of the container, checks of command line arguments, wording of
messages, timestamps, icon palettes and the choice among icons, the table of
link kinds, one-field projections of bounds, colours and flags in `pkg/lvvi`,
sizes and coordinates of the scene, decoded values that are lists of structs in
the diff, the drawing functions of the page and what the WebAssembly program
hands it. Not modelled at all: the read-only commands other than the exit code
of `diff`, the JSON export (formatting), the coverage and oracle tooling, the
tag generator with its generated enumerations.

Next, in this order:

1. Proofs about the readers of sequences of cells (`Cells`, `Links`), with the
   lemmas on cells that `RecordsAlwaysWhole` rests on: for `DataIsReadWhole` and,
   codec by codec, `RoundTrip`.
2. Lists of structs in the diff (`decoded.go`), which adds a level of nesting.
