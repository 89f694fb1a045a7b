------------------------------- MODULE Bounds -------------------------------
(***************************************************************************)
(* Where the parser reads.  Every position is a sum of words found in the  *)
(* file, most of them taken in 64 bits, one in 32.  The file is either     *)
(* arbitrary, so that each word read may be anything, or one the           *)
(* serializer wrote.  What the descriptors and payloads mean is the        *)
(* subject of module Rsrc.                                                 *)
(***************************************************************************)
EXTENDS Integers, Sequences

CONSTANTS
  WordMod,     \* values of a 32-bit word
  HeaderSize,  \* 32
  ListSize,    \* 20, the block info list
  CountSize,   \* 4, the block count
  BlockSize,   \* 12, a block header
  SectionSize, \* 20, a section descriptor
  LenSize,     \* 4, the length word of a payload and its alignment
  MaxPayload,  \* maxPayloadBytes
  MaxBlocks,   \* maxBlocks
  MaxSections, \* maxSectionsPerBlock
  Words,       \* the words an arbitrary file may hold
  Headers,     \* the offsets and sizes its header may state
  Sizes,       \* the sizes it may have
  Layouts      \* the written files: payload lengths per block, bytes of names
               \* and of raw tail

ASSUME SizesAssumption ==
  /\ {WordMod, HeaderSize, ListSize, CountSize, BlockSize, SectionSize, LenSize}
       \subseteq Nat \ {0}
  /\ HeaderSize < WordMod
  /\ MaxPayload \in Nat /\ MaxBlocks \in Nat /\ MaxSections \in Nat

ASSUME InputsAssumption ==
  /\ Words \subseteq 0 .. WordMod - 1
  /\ Headers \subseteq [infoOff : 0 .. WordMod - 1, infoSize : 0 .. WordMod - 1,
                        dataOff : 0 .. WordMod - 1, dataSize : 0 .. WordMod - 1]
  /\ Sizes \subseteq Nat

\* There is a block in every file and a section in every block: the counts are
\* stored less one.
ASSUME LayoutsAssumption ==
  Layouts \subseteq [ blocks : Seq(Seq(Nat) \ {<< >>}) \ {<< >>},
                      names : Nat, tail : Nat ]

-----------------------------------------------------------------------------
(***************************************************************************)
(* What serialize lays out for payloads of given lengths: the words it     *)
(* states, each cut to 32 bits, and where it really puts the name table.   *)
(***************************************************************************)

Total(q) ==
  LET sum[n \in 0 .. Len(q)] == IF n = 0 THEN 0 ELSE sum[n - 1] + q[n]
  IN  sum[Len(q)]

\* A payload with its length, padded.
Stored(len) == LenSize * ((len + 2 * LenSize - 1) \div LenSize)
StoredBlock(lens) == Total([k \in DOMAIN lens |-> Stored(lens[k])])
Region(blocks) == Total([i \in DOMAIN blocks |-> StoredBlock(blocks[i])])
Descriptors(blocks) == SectionSize * Total([i \in DOMAIN blocks |-> Len(blocks[i])])

TableAt(l) ==
  HeaderSize + Region(l.blocks) + HeaderSize + ListSize + CountSize
    + BlockSize * Len(l.blocks) + Descriptors(l.blocks)
FileSize(l) == TableAt(l) + l.names + l.tail

WrittenHeader(l) ==
  [ infoOff  |-> (HeaderSize + Region(l.blocks)) % WordMod,
    infoSize |-> (FileSize(l) - HeaderSize - Region(l.blocks)) % WordMod,
    dataOff  |-> HeaderSize,
    dataSize |-> Region(l.blocks) % WordMod ]

\* Mutant of BlockOffset: the block count is not counted.
BlockOffsetFromHeaders(blocks, i) ==
  (BlockSize * Len(blocks) + Descriptors(SubSeq(blocks, 1, i - 1))) % WordMod

BlockOffset(blocks, i) ==
  (CountSize + BlockSize * Len(blocks) + Descriptors(SubSeq(blocks, 1, i - 1))) % WordMod

PayloadOffset(blocks, i, k) ==
  ( Region(SubSeq(blocks, 1, i - 1)) + StoredBlock(SubSeq(blocks[i], 1, k - 1)) ) % WordMod

-----------------------------------------------------------------------------
VARIABLES
  layout,     \* the layout that was written, Arbitrary when there is none
  size,       \* length of the file
  hdr,        \* offsets and sizes in the header
  pc,         \* what is read next, or how the parse ended
  listOff,    \* the offset of the block table, as stated
  pos,        \* its position, as computed
  blocks,     \* block headers to read
  blockPos,   \* position of the next
  sections,   \* descriptors to read in this block
  sectionPos, \* position of the next
  namesStart, \* the end of the descriptors seen so far
  lowest      \* the lowest position a descriptor was read from

vars == << layout, size, hdr, pc, listOff, pos, blocks, blockPos, sections,
           sectionPos, namesStart, lowest >>

Arbitrary == [blocks |-> << >>, names |-> 0, tail |-> 0]

Init ==
  /\ \/ layout = Arbitrary /\ size \in Sizes /\ hdr \in Headers
     \/ layout \in Layouts /\ size = FileSize(layout) /\ hdr = WrittenHeader(layout)
  /\ pc = "header"
  /\ listOff = 0 /\ pos = 0 /\ blocks = 0 /\ blockPos = 0
  /\ sections = 0 /\ sectionPos = 0 /\ namesStart = 0 /\ lowest = WordMod

\* A written file states its layout; one too large for 32-bit words does not,
\* and what is read then may be anything.
Known == layout # Arbitrary /\ size <= WordMod

InfoEnd == hdr.infoOff + hdr.infoSize

\* readAt: bytes.Reader has nothing to read at its end, not even no bytes.
Readable(off, n) == off + n <= size /\ off < size

Reject ==
  /\ pc' = "rejected"
  /\ UNCHANGED << layout, size, hdr, listOff, pos, blocks, blockPos, sections,
                  sectionPos, namesStart, lowest >>

Goto(step) == pc' = step /\ UNCHANGED << layout, size, hdr >>

\* The header and its bounds.
HeaderFits ==
  /\ Readable(0, HeaderSize)
  /\ InfoEnd <= size /\ hdr.dataOff + hdr.dataSize <= size
  /\ hdr.infoOff >= HeaderSize /\ hdr.dataOff >= HeaderSize

ParseHeader ==
  /\ pc = "header"
  /\ \/ ~HeaderFits /\ Reject
     \/ /\ HeaderFits /\ Goto("list")
        /\ UNCHANGED << listOff, pos, blocks, blockPos, sections, sectionPos,
                        namesStart, lowest >>

\* The secondary header and the block info list behind it.
ListFits == Readable(hdr.infoOff, HeaderSize)
            /\ Readable(hdr.infoOff + HeaderSize, ListSize)

ListOffsets == IF Known THEN {HeaderSize + ListSize} ELSE Words

\* Mutant of TablePosition: the sum is taken in 64 bits.
WidePosition(w) == hdr.infoOff + w

\* pos := header.InfoOffset + blockInfoOffset, both uint32.
TablePosition(w) == (hdr.infoOff + w) % WordMod

ParseBlockInfoList ==
  /\ pc = "list"
  /\ \/ ~ListFits /\ Reject
     \/ /\ ListFits
        /\ \E w \in ListOffsets :
             \/ TablePosition(w) > InfoEnd /\ Reject
             \/ /\ TablePosition(w) <= InfoEnd /\ Goto("count")
                /\ listOff' = w /\ pos' = TablePosition(w)
                /\ UNCHANGED << blocks, blockPos, sections, sectionPos,
                                namesStart, lowest >>

Counts == IF Known THEN {Len(layout.blocks)} ELSE 1 .. MaxBlocks + 1

ParseCount ==
  /\ pc = "count"
  /\ \/ ~Readable(pos, CountSize) /\ Reject
     \/ /\ Readable(pos, CountSize)
        /\ \E n \in Counts :
             \/ n > MaxBlocks /\ Reject
             \/ /\ n <= MaxBlocks /\ Goto("block")
                /\ blocks' = n
                /\ blockPos' = pos + CountSize
                /\ namesStart' = pos + CountSize + BlockSize * n
                /\ lowest' = pos
                /\ UNCHANGED << listOff, pos, sections, sectionPos >>

LowerOf(a, b) == IF a < b THEN a ELSE b
HigherOf(a, b) == IF a < b THEN b ELSE a

\* Block i of a written file is read when Len - i + 1 are left.
Index == Len(layout.blocks) - blocks + 1

BlockWords ==
  IF Known THEN {<< BlockOffset(layout.blocks, Index), Len(layout.blocks[Index]) >>}
  ELSE Words \X (1 .. MaxSections + 1)

ParseBlock ==
  /\ pc = "block" /\ blocks > 0
  /\ \/ ~Readable(blockPos, BlockSize) /\ Reject
     \/ /\ Readable(blockPos, BlockSize)
        /\ \E w \in BlockWords :
             \/ w[2] > MaxSections /\ Reject
             \/ /\ w[2] <= MaxSections /\ Goto("section")
                /\ sections' = w[2]
                /\ sectionPos' = pos + w[1]
                /\ namesStart' = HigherOf(namesStart, pos + w[1] + SectionSize * w[2])
                /\ lowest' = LowerOf(lowest, pos + w[1])
                /\ UNCHANGED << listOff, pos, blocks, blockPos >>

\* A descriptor, and the payload it points to.
Payloads ==
  IF Known
  THEN LET k == Len(layout.blocks[Index]) - sections + 1
       IN  {<< PayloadOffset(layout.blocks, Index, k), layout.blocks[Index][k] >>}
  ELSE Words \X Words

PayloadFits(off, len) ==
  /\ Readable(off, LenSize)
  /\ len <= MaxPayload
  /\ Readable(off + LenSize, len)

ParseSection ==
  /\ pc = "section"
  /\ \/ ~Readable(sectionPos, SectionSize) /\ Reject
     \/ /\ Readable(sectionPos, SectionSize)
        /\ \E w \in Payloads :
             \/ ~PayloadFits(hdr.dataOff + w[1], w[2]) /\ Reject
             \/ /\ PayloadFits(hdr.dataOff + w[1], w[2])
                /\ Goto(IF sections = 1 THEN "block" ELSE "section")
                /\ sections' = sections - 1
                /\ sectionPos' = sectionPos + SectionSize
                /\ blocks' = IF sections = 1 THEN blocks - 1 ELSE blocks
                /\ blockPos' = IF sections = 1 THEN blockPos + BlockSize ELSE blockPos
                /\ UNCHANGED << listOff, pos, namesStart, lowest >>

\* Mutant of NamesFit: it is compared with the end of the file.
NamesInFile == namesStart <= size

\* The name table must begin in the info section.
NamesFit == namesStart <= InfoEnd

ParseNames ==
  /\ pc = "block" /\ blocks = 0
  /\ \/ ~NamesFit /\ Reject
     \/ /\ NamesFit /\ Goto("accepted")
        /\ UNCHANGED << listOff, pos, blocks, blockPos, sections, sectionPos,
                        namesStart, lowest >>

Done == pc \in {"accepted", "rejected"} /\ UNCHANGED vars

Next ==
  \/ ParseHeader \/ ParseBlockInfoList \/ ParseCount \/ ParseBlock
  \/ ParseSection \/ ParseNames \/ Done

Spec == Init /\ [][Next]_vars

-----------------------------------------------------------------------------
(***************************************************************************)
(* What an accepted file guarantees.                                       *)
(***************************************************************************)

\* The validator is silent about the block table (block_info.offset_bounds).
OffsetValid == listOff <= hdr.infoSize

\* In a file the parser accepts and the validator does not object to, every
\* descriptor lies in the info section, and so does the start of the name
\* table, although blocks state the place of their descriptors freely and one
\* position is computed in 32 bits.  Files of 2^32 bytes or more excepted.
ValidatedInInfo ==
  pc = "accepted" /\ OffsetValid /\ size < WordMod =>
    lowest >= hdr.infoOff /\ namesStart <= InfoEnd

\* The parser accepts what the serializer lays out, if it fits 32-bit words and
\* the parser's caps, and finds the name table where it was put: the end of the
\* last descriptor is computed by one from the offsets of all blocks, by the
\* other as a running sum.
WithinCaps(l) ==
  /\ Len(l.blocks) <= MaxBlocks
  /\ \A i \in DOMAIN l.blocks :
       /\ Len(l.blocks[i]) <= MaxSections
       /\ \A k \in DOMAIN l.blocks[i] : l.blocks[i][k] <= MaxPayload

WrittenIsRead ==
  Known /\ WithinCaps(layout) =>
    /\ pc # "rejected"
    /\ pc = "accepted" => namesStart = TableAt(layout)

=============================================================================
