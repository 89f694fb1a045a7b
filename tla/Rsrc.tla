-------------------------------- MODULE Rsrc --------------------------------
(***************************************************************************)
(* The RSRC container: the bytes on disk (an image), the editable value a  *)
(* caller holds (a file), the parser that maps the first to the second and *)
(* the two serializers that map the second back to the first               *)
(* (internal/rsrcwire, internal/binaryx, internal/validate).               *)
(*                                                                         *)
(* What is kept byte for byte is the end of the info section, from the     *)
(* start of the name table: the name table has no length of its own, and   *)
(* which bytes are names and which are the opaque raw tail is decided by   *)
(* the parser from the offsets the sections use.  The data section is a    *)
(* map from offsets to payloads.  Headers, block headers and section       *)
(* descriptors are fields; the bounds of their positions are the subject   *)
(* of module Bounds.                                                       *)
(*                                                                         *)
(* A section is named by an identity in Sections, which stands for its     *)
(* opaque words Unknown3 and Unknown5: both serializers carry them along,  *)
(* so a section can be followed through a reordering.                      *)
(***************************************************************************)
EXTENDS Integers, Sequences, FiniteSets, Functions

CONSTANTS
  Sections,    \* identities of sections
  OtherTypes,  \* block types outside CanonicalTypes, in byte order
  Unprintable, \* the types with a byte outside 0x20..0x7e
  ByteMod,     \* values of one byte: 256 in the code
  MaxPayload,  \* maxPayloadBytes, the parser's cap on one payload
  MaxLen       \* the longest payload a 32-bit length can state

ASSUME ByteModAssumption == ByteMod \in Nat \ {0, 1}
ASSUME MaxLenAssumption == MaxLen \in Nat /\ MaxPayload \in 0 .. MaxLen
ASSUME SectionsAssumption == IsFiniteSet(Sections)

Byte == 0 .. ByteMod - 1

\* Pascal strings: one length byte, so at most ByteMod - 1 bytes of text.
Name == {n \in Seq(Byte) : Len(n) <= ByteMod - 1}
NoName == << >>
MaxNameLen == ByteMod - 1

\* The sentinel ^uint32(0) of a section without a name.
NoNameOffset == -1

\* A payload is known by its length, by which contents it holds (numbered in
\* the order of bytes.Compare) and by what the STRG codec says of it.
StrgIssues == {"short", "overruns", "trailing_bytes", "control_chars"}
Payload == [len : 0 .. MaxLen, val : Nat, strg : SUBSET StrgIssues]

-----------------------------------------------------------------------------
(***************************************************************************)
(* Order of blocks and sections.                                           *)
(***************************************************************************)

\* The rank of canonicalBlockRank: these types in this order, then the rest.
CanonicalTypes ==
  << "ADir", "LIBN", "LVSR", "RTSG", "LIvi", "vers", "CONP", "BDPW", "STRG",
     "PALM", "PLM2", "CPST", "ICON", "icl4", "icl8", "CPC2", "LIfp", "FPEx",
     "FPHb", "FPSE", "VPDP", "LIbd", "BDEx", "BDHb", "BDSE", "VITS", "DTHP",
     "MUID", "HIST", "VCTP", "FTAB", "STR " >>

BlockTypes == CanonicalTypes \o OtherTypes
ASSUME TypesAssumption ==
  /\ BlockTypes \in Seq(STRING)
  /\ \A i \in DOMAIN CanonicalTypes : CanonicalTypes[i] \notin Unprintable

Types == {BlockTypes[i] : i \in DOMAIN BlockTypes}
BlockRank(t) == CHOOSE i \in DOMAIN BlockTypes : BlockTypes[i] = t

\* blocks is a sequence of blocks, each the sequence of its sections.
\* s lies before t when a loop over blocks and sections meets it first.
Before(blocks, s, t) ==
  \E i, j \in DOMAIN blocks :
    \E k \in DOMAIN blocks[i], l \in DOMAIN blocks[j] :
      /\ blocks[i][k] = s
      /\ blocks[j][l] = t
      /\ i < j \/ (i = j /\ k < l)

\* bytes.Compare(a, b) < 0, and the order of Go strings.
LexLess(a, b) ==
  \E i \in 0 .. Len(a) :
    /\ i < Len(b)
    /\ \A k \in 1 .. i : a[k] = b[k]
    /\ i = Len(a) \/ (i < Len(a) /\ a[i + 1] < b[i + 1])

\* sort.SliceStable: an element moves behind those that are less than it and
\* behind the equal ones that stood in front of it.
StableSort(q, Less(_, _)) ==
  LET Ahead(i) == {j \in DOMAIN q : \/ Less(q[j], q[i])
                                    \/ ~Less(q[i], q[j]) /\ j < i}
  IN  CHOOSE r \in [DOMAIN q -> Range(q)] :
        \A i \in DOMAIN q : r[1 + Cardinality(Ahead(i))] = q[i]

-----------------------------------------------------------------------------
(***************************************************************************)
(* Parsing.                                                                *)
(***************************************************************************)

\* Mutants of Consumed: the length byte is not counted, or a terminator is.
ConsumedText(n) == IF n = 0 THEN 1 ELSE n
ConsumedTerminator(n) == 2 + n

\* The byte count Reader.PascalString returns for a length byte n: the sum is
\* taken in a uint8.
Consumed(n) == IF n = 0 THEN 1 ELSE (1 + n) % ByteMod

\* The readable bytes from the start of the name table: the reader is bounded
\* by the file, not by the info section.
Stream(img) == img.tail \o img.slack

NameAt(img, o) == SubSeq(Stream(img), o + 2, o + 1 + Stream(img)[o + 1])
NameEnd(img, o) == o + Consumed(Stream(img)[o + 1])

UsedOffsets(sec) == {sec[s].nameOff : s \in DOMAIN sec} \ {NoNameOffset}

\* The three ways parseNames reports section.name_offset.invalid.
BadName(img, o) ==
  \/ o >= Len(img.tail)
  \/ /\ o < Len(img.tail)
     /\ \/ o + 1 + Stream(img)[o + 1] > Len(Stream(img))
        \/ NameEnd(img, o) > Len(img.tail)

GoodOffsets(img) == {o \in UsedOffsets(img.sec) : ~BadName(img, o)}

\* The payload stored at an offset of the data section.
StoredAt(img, off) == {d \in img.data : d.off = off}
PayloadAt(img, off) == (CHOOSE d \in StoredAt(img, off) : TRUE).payload

\* Errors a lenient parse returns, and those only a strict one does.
Unreadable(img) ==
  \E s \in DOMAIN img.sec :
    ~\E d \in StoredAt(img, img.sec[s].dataOff) : d.payload.len <= MaxPayload
StrictIssue(img) ==
  \/ img.hdr # img.hdr2
  \/ \E o \in UsedOffsets(img.sec) : BadName(img, o)
ParseFails(img, strict) == Unreadable(img) \/ (strict /\ StrictIssue(img))

\* Where the names end and the raw tail starts.
RawTailStart(img) ==
  CHOOSE e \in 0 .. Len(img.tail) :
    /\ e = 0 \/ \E o \in GoodOffsets(img) : e = NameEnd(img, o)
    /\ \A o \in GoodOffsets(img) : NameEnd(img, o) <= e

Parse(img) ==
  LET good == GoodOffsets(img)
  IN  [ hdr     |-> img.hdr,
        hdr2    |-> img.hdr2,
        blocks  |-> img.blocks,
        names   |-> [o \in good |-> NameAt(img, o)],
        rawTail |-> SubSeq(img.tail, RawTailStart(img) + 1, Len(img.tail)),
        sec     |-> [s \in DOMAIN img.sec |->
                      LET d == img.sec[s]
                      IN  [ type    |-> d.type,
                            index   |-> d.index,
                            nameOff |-> d.nameOff,
                            dataOff |-> d.dataOff,
                            name    |-> IF d.nameOff \in good
                                        THEN NameAt(img, d.nameOff) ELSE NoName,
                            payload |-> PayloadAt(img, d.dataOff) ]] ]

-----------------------------------------------------------------------------
(***************************************************************************)
(* Names in memory.                                                        *)
(***************************************************************************)

Named(f) == {s \in DOMAIN f.sec : f.sec[s].nameOff # NoNameOffset}
Users(f, o) == {s \in Named(f) : f.sec[s].nameOff = o}

\* canonicalSectionName: the section's own name, else its table entry.
ResolvedName(f, s) ==
  IF f.sec[s].name # NoName THEN f.sec[s].name
  ELSE IF f.sec[s].nameOff \in DOMAIN f.names THEN f.names[f.sec[s].nameOff]
  ELSE NoName

\* The names sections give for the entry at o.
SectionNames(f, o) == {f.sec[s].name : s \in Users(f, o)} \ {NoName}

\* "missing name for offset": neither the section nor the table has one.
Nameless(f) ==
  {s \in Named(f) : /\ f.sec[s].name = NoName
                    /\ f.sec[s].nameOff \notin DOMAIN f.names}

\* The preserving writer also takes the name a section in front of it has
\* supplied for the same offset.
MissingName(f) ==
  \E s \in Nameless(f) : \A t \in Users(f, f.sec[s].nameOff) :
     Before(f.blocks, t, s) => f.sec[t].name = NoName

\* "conflicting names for offset": a name other than the entry's.
Conflicts(f, o) ==
  \/ \E m, n \in SectionNames(f, o) : m # n
  \/ o \in DOMAIN f.names /\ \E n \in SectionNames(f, o) : n # f.names[o]

\* serializeNamesCanonical compares the sections' names with each other only.
ConflictsCanonical(f, o) ==
  \E s, t \in Users(f, o) : ResolvedName(f, s) # ResolvedName(f, t)

-----------------------------------------------------------------------------
(***************************************************************************)
(* Name table layout.  An entry takes 1 + Len(value) bytes; an offset in a *)
(* compacted table is the number of bytes of the entries in front of it.   *)
(***************************************************************************)

EntrySize(v) == 1 + Len(v)

BytesOf(values, offs) ==
  Cardinality({c \in offs \X (0 .. MaxNameLen) : c[2] < EntrySize(values[c[1]])})

\* Some entry starts inside the one in front of it.
Overlapping(values) ==
  \E o, p \in DOMAIN values : o < p /\ p < o + EntrySize(values[o])

\* The parsed offsets; as a mutant of PreservingPlace, never compacted.
SparsePlace(values) == [o \in DOMAIN values |-> o]

\* The preserving writer keeps the parsed offsets unless entries overlap.

PreservingPlace(values) ==
  IF Overlapping(values)
  THEN [o \in DOMAIN values |-> BytesOf(values, {p \in DOMAIN values : p < o})]
  ELSE SparsePlace(values)

\* The canonical writer lays entries out in the order of their first use.
FirstUsedBefore(f, blocks, p, o) ==
  \E s \in Users(f, p) : \A t \in Users(f, o) : Before(blocks, s, t)

CanonicalPlace(f, blocks, values) ==
  [o \in DOMAIN values |->
     BytesOf(values, {p \in DOMAIN values : FirstUsedBefore(f, blocks, p, o)})]

PreservingValues(f) ==
  [o \in DOMAIN f.names \cup UsedOffsets(f.sec) |->
     IF o \in DOMAIN f.names THEN f.names[o]
     ELSE CHOOSE n \in SectionNames(f, o) : TRUE]

CanonicalValues(f) ==
  [o \in UsedOffsets(f.sec) |->
     ResolvedName(f, CHOOSE s \in Users(f, o) : TRUE)]

\* Entry o covers byte i of the table, counted from 1.
Covers(values, place, o, i) ==
  place[o] < i /\ i <= place[o] + EntrySize(values[o])

EntryEnds(values, place) == {place[o] + EntrySize(values[o]) : o \in DOMAIN values}

TableSize(values, place) ==
  CHOOSE n \in {0} \cup EntryEnds(values, place) :
    \A e \in EntryEnds(values, place) : e <= n

\* Bytes no entry covers are zero.
NameTable(values, place) ==
  IF place = << >> THEN << >>
  ELSE [i \in 1 .. TableSize(values, place) |->
          IF \E o \in DOMAIN values : Covers(values, place, o, i)
          THEN LET o == CHOOSE o \in DOMAIN values : Covers(values, place, o, i)
               IN  IF i = place[o] + 1 THEN Len(values[o])
                   ELSE values[o][i - place[o] - 1]
          ELSE 0]

-----------------------------------------------------------------------------
(***************************************************************************)
(* Serializing.                                                            *)
(***************************************************************************)

\* A payload with its 4-byte length, padded to a multiple of 4.
Stored(payload) == 4 * ((payload.len + 7) \div 4)

\* The offset of a section in the data region: the bytes laid out before it.
DataOffset(f, blocks, s) ==
  LET ahead == {t \in DOMAIN f.sec : Before(blocks, t, s)}
  IN  Cardinality({c \in ahead \X (0 .. MaxLen + 7) :
                     c[2] < Stored(f.sec[c[1]].payload)})

\* The order of sections within a block, and of blocks.
SectionLess(f, s, t) ==
  \/ f.sec[s].index < f.sec[t].index
  \/ /\ f.sec[s].index = f.sec[t].index
     /\ \/ LexLess(ResolvedName(f, s), ResolvedName(f, t))
        \/ /\ ResolvedName(f, s) = ResolvedName(f, t)
           /\ f.sec[s].payload.val < f.sec[t].payload.val

BlockLess(f, a, b) ==
  BlockRank(f.sec[a[1]].type) < BlockRank(f.sec[b[1]].type)

\* StableSort with equal elements changing places, and its mutant of
\* CanonicalBlocks.
ReversingSort(q, Less(_, _)) ==
  LET Ahead(i) == {j \in DOMAIN q : \/ Less(q[j], q[i])
                                    \/ ~Less(q[i], q[j]) /\ j > i}
  IN  CHOOSE r \in [DOMAIN q -> Range(q)] :
        \A i \in DOMAIN q : r[1 + Cardinality(Ahead(i))] = q[i]

ReversedTies(f) ==
  LET sorted == [i \in DOMAIN f.blocks |->
                   ReversingSort(f.blocks[i], LAMBDA s, t : SectionLess(f, s, t))]
  IN  ReversingSort(sorted, LAMBDA a, b : BlockLess(f, a, b))

\* canonicalizeBlocks.
CanonicalBlocks(f) ==
  LET sorted == [i \in DOMAIN f.blocks |->
                   StableSort(f.blocks[i], LAMBDA s, t : SectionLess(f, s, t))]
  IN  StableSort(sorted, LAMBDA a, b : BlockLess(f, a, b))

\* Mutant of WrittenHeaders: each header is written from the one parsed.
BothHeaders(f) == [first |-> f.hdr, second |-> f.hdr2]

\* Both headers are written from the primary one.
WrittenHeaders(f) == [first |-> f.hdr, second |-> f.hdr]

Emit(f, blocks, values, place) ==
  [ hdr    |-> WrittenHeaders(f).first,
    hdr2   |-> WrittenHeaders(f).second,
    blocks |-> blocks,
    tail   |-> NameTable(values, place) \o f.rawTail,
    slack  |-> << >>,
    data   |-> {[ off     |-> DataOffset(f, blocks, s),
                  payload |-> f.sec[s].payload ] : s \in DOMAIN f.sec},
    sec    |-> [s \in DOMAIN f.sec |->
                  [ type    |-> f.sec[s].type,
                    index   |-> f.sec[s].index,
                    nameOff |-> IF s \in Named(f) THEN place[f.sec[s].nameOff]
                                ELSE NoNameOffset,
                    dataOff |-> DataOffset(f, blocks, s) ]] ]

\* The error returns of serialize that a file can reach: the name checks.
SerializeFails(f) ==
  MissingName(f) \/ \E o \in UsedOffsets(f.sec) : Conflicts(f, o)

Serialize(f) ==
  LET values == PreservingValues(f)
  IN  Emit(f, f.blocks, values, PreservingPlace(values))

SerializeCanonicalFails(f) ==
  \/ Nameless(f) # {}
  \/ \E o \in UsedOffsets(f.sec) : ConflictsCanonical(f, o)

SerializeCanonical(f) ==
  LET blocks == CanonicalBlocks(f)
      values == CanonicalValues(f)
  IN  Emit(f, blocks, values, CanonicalPlace(f, blocks, values))

-----------------------------------------------------------------------------
(***************************************************************************)
(* The structural validator: the codes of its errors.  lvrsrc.File carries *)
(* no parse issues, so what a lenient parse recorded must be found again.  *)
(***************************************************************************)

\* The end is a sum of uint32 in the code (validate.go:175).  It is taken here as it
\* is: a section that ends at 2^32 or behind is left out.
RegionEnd(d) == d.dataOff + 4 + d.payload.len

SortsBefore(c, d) ==
  c.dataOff < d.dataOff \/ (c.dataOff = d.dataOff /\ RegionEnd(c) < RegionEnd(d))

\* Mutant of NeighboursOverlap: touching regions overlap.
NeighboursTouch(f) ==
  \E s, t \in DOMAIN f.sec :
    /\ s # t
    /\ ~SortsBefore(f.sec[t], f.sec[s])
    /\ ~\E r \in DOMAIN f.sec : /\ SortsBefore(f.sec[s], f.sec[r])
                                /\ SortsBefore(f.sec[r], f.sec[t])
    /\ f.sec[t].dataOff <= RegionEnd(f.sec[s])

\* Only neighbours in the order of (start, end) are compared.
NeighboursOverlap(f) ==
  \E s, t \in DOMAIN f.sec :
    /\ s # t
    /\ ~SortsBefore(f.sec[t], f.sec[s])
    /\ ~\E r \in DOMAIN f.sec : /\ SortsBefore(f.sec[s], f.sec[r])
                                /\ SortsBefore(f.sec[r], f.sec[t])
    /\ f.sec[t].dataOff < RegionEnd(f.sec[s])

\* Mutant of DanglingSections: sections the parser found no name for are skipped.
DanglingOfNamed(f) ==
  {s \in Named(f) : f.sec[s].name # NoName /\ f.sec[s].nameOff \notin DOMAIN f.names}

\* The sections an issue is reported of whose name offset no entry answers to.
DanglingSections(f) == {s \in Named(f) : f.sec[s].nameOff \notin DOMAIN f.names}
DanglingName(f) == DanglingSections(f) # {}

ErrorCodes(f) ==
  {c \in {"header.mismatch", "block.type.non_printable",
          "section.name_offset.invalid", "section.payload.overlap"} :
     \/ c = "header.mismatch" /\ f.hdr # f.hdr2
     \/ /\ c = "block.type.non_printable"
        /\ \E s \in DOMAIN f.sec : f.sec[s].type \in Unprintable
     \/ c = "section.name_offset.invalid" /\ DanglingName(f)
     \/ c = "section.payload.overlap" /\ NeighboursOverlap(f)}

-----------------------------------------------------------------------------
(***************************************************************************)
(* The shape of images and files, and what is left of a file when its      *)
(* layout is forgotten.                                                    *)
(***************************************************************************)

IsMap(m, K, S) ==
  /\ m = [k \in DOMAIN m |-> m[k]]
  /\ DOMAIN m \subseteq K
  /\ IsFiniteSet(DOMAIN m)
  /\ \A k \in DOMAIN m : m[k] \in S

\* The blocks of a file hold each of its sections in one place.
IsLayout(blocks, S) ==
  /\ blocks \in Seq(Seq(S) \ {<< >>})
  /\ \A s \in S : \E i \in DOMAIN blocks : \E k \in DOMAIN blocks[i] : blocks[i][k] = s
  /\ \A i, j \in DOMAIN blocks : \A k \in DOMAIN blocks[i], l \in DOMAIN blocks[j] :
       blocks[i][k] = blocks[j][l] => i = j /\ k = l

Descriptor ==
  [type : Types, index : Int, nameOff : Nat \cup {NoNameOffset}, dataOff : Nat]

Section ==
  [ type : Types, index : Int, nameOff : Nat \cup {NoNameOffset}, dataOff : Nat,
    name : Name, payload : Payload ]

IsImage(i) ==
  /\ i = [ hdr |-> i.hdr, hdr2 |-> i.hdr2, blocks |-> i.blocks, sec |-> i.sec,
           data |-> i.data, tail |-> i.tail, slack |-> i.slack ]
  /\ i.hdr \in Nat /\ i.hdr2 \in Nat
  /\ IsMap(i.sec, Sections, Descriptor)
  /\ IsLayout(i.blocks, DOMAIN i.sec)
  /\ i.data \in SUBSET [off : Nat, payload : Payload]
  /\ \A c, d \in i.data : c.off = d.off => c = d
  /\ i.tail \in Seq(Byte) /\ i.slack \in Seq(Byte)

IsFile(f) ==
  /\ f = [ hdr |-> f.hdr, hdr2 |-> f.hdr2, blocks |-> f.blocks, sec |-> f.sec,
           names |-> f.names, rawTail |-> f.rawTail ]
  /\ f.hdr \in Nat /\ f.hdr2 \in Nat
  /\ IsMap(f.sec, Sections, Section)
  /\ IsLayout(f.blocks, DOMAIN f.sec)
  /\ IsMap(f.names, Nat, Name)
  /\ f.rawTail \in Seq(Byte)

\* No payload is longer than the parser reads back.
Fits(f) == \A s \in DOMAIN f.sec : f.sec[s].payload.len <= MaxPayload

\* What a caller sees of a file, whatever its layout.
Contents(f) ==
  [ hdr |-> f.hdr,
    sec |-> [s \in DOMAIN f.sec |->
               [ type |-> f.sec[s].type, index |-> f.sec[s].index,
                 name |-> ResolvedName(f, s), payload |-> f.sec[s].payload ]] ]

=============================================================================
