------------------------------- MODULE Codecs -------------------------------
(***************************************************************************)
(* The codecs of internal/codecs for single payloads: what each reads,     *)
(* what it writes for a value, and what Validate reports.  A codec is a    *)
(* record: the shape of its payload and the sizes that go with it.  Values *)
(* are records with the fields the code keeps, edited ones included.       *)
(***************************************************************************)
EXTENDS LinkTargets

-----------------------------------------------------------------------------
\* Payloads of one size.

Fixed(name, size) == [name |-> name, shape |-> "fixed", size |-> size]

\* Numbers and GUIDs are one cell, HIST has CounterCount counters (ten in the
\* code), BDPW three hashes.
CounterCount == 2
MUID == Fixed("MUID", 1)
VPDP == Fixed("VPDP", 1)
FPSE == Fixed("FPSE", 1)
BDSE == Fixed("BDSE", 1)
RTSG == Fixed("RTSG", 1)
HIST == Fixed("HIST", CounterCount)
BDPW == Fixed("BDPW", 3)
CONP == Fixed("CONP", 1)
CPC2 == Fixed("CPC2", 1)

\* Values of conpane and icon carry the ident they were read under, and are
\* refused under another one.
DecodeFixed(c, p) == IF Len(p) = c.size THEN {[name |-> c.name, raw |-> p]} ELSE {}

EncodeFixed(c, v) == IF c \in {CONP, CPC2} /\ v.name # c.name THEN {} ELSE {v.raw}

-----------------------------------------------------------------------------
\* Icons: rows of pixels of 1, 4 or 8 bits, here 1, 2 or 4 bits of a cell.

BitsPerCell == 4
PixelCount == 4

Icon(name, bits) ==
  [name |-> name, shape |-> "icon", size |-> (PixelCount * bits) \div BitsPerCell, bits |-> bits]

ICON == Icon("ICON", 1)
ICL4 == Icon("icl4", 2)
ICL8 == Icon("icl8", 4)

\* How far the pixel with the given number is shifted in its cell.
Shift(c, i) == BitsPerCell - c.bits * (1 + (i % (BitsPerCell \div c.bits)))

DecodeIcon(c, p) ==
  IF Len(p) # c.size THEN {}
  ELSE {[name |-> c.name,
         pixels |-> [i \in 1..PixelCount |->
           (p[1 + ((i - 1) * c.bits) \div BitsPerCell] \div 2^Shift(c, i - 1)) % 2^c.bits]]}

EncodeIcon(c, v) ==
  IF \/ v.name # c.name
     \/ Len(v.pixels) # PixelCount
     \/ \E i \in DOMAIN v.pixels : v.pixels[i] >= 2^c.bits
  THEN {}
  ELSE {[b \in 1..c.size |->
          MapThenSumSet(LAMBDA i : v.pixels[i] * 2^Shift(c, i - 1),
                        {i \in 1..PixelCount : 1 + ((i - 1) * c.bits) \div BitsPerCell = b})]}

-----------------------------------------------------------------------------
\* Counted lists.

FPEX == [name |-> "FPEx", shape |-> "counted"]
BDEX == [name |-> "BDEx", shape |-> "counted"]

DecodeCounted(p) ==
  IF p = << >> THEN {} ELSE IF Len(p) # 1 + p[1] THEN {} ELSE {[items |-> Rest(p, 1)]}

\* LIBN: a count and names with a length byte.
LIBN == [name |-> "LIBN", shape |-> "names"]

DecodeNames(p) ==
  IF p = << >> THEN {}
  ELSE {[items |-> s.items] : s \in {r \in Strings(p, 2, p[1]) : r.next = Len(p) + 1}}

EncodeNames(v) ==
  IF SomeLonger(v.items, MaxLength) THEN {}
  ELSE {<< Len(v.items) >> \o WriteCuts(v.items, MaxLength)}

\* VITS: a count and pairs of a name and a variant, both with a length word.
VITS == [name |-> "VITS", shape |-> "pairs"]

DecodePairs(p) ==
  IF p = << >> THEN {}
  ELSE {[items |-> s.items] : s \in {r \in Strings(p, 2, 2 * p[1]) : r.next = Len(p) + 1}}

EncodePairs(v) == {<< Len(v.items) \div 2 >> \o WriteStrings(v.items)}

-----------------------------------------------------------------------------
\* DTHP: a count, and the shift when the count is not 0.
DTHP == [name |-> "DTHP", shape |-> "slice"]

DecodeSlice(p) ==
  LET Shifted(c) ==
        {[count |-> c.val, shift |-> s.val] : s \in {x \in VarSize(p, c.next) : x.next = Len(p) + 1}}
  IN UNION {IF c.val # 0 THEN Shifted(c)
            ELSE IF c.next = Len(p) + 1 THEN {[count |-> 0, shift |-> 0]} ELSE {} :
              c \in VarSize(p, 1)}

EncodeSlice(v) ==
  {WriteVarSize(v.count) \o (IF v.count > 0 THEN WriteVarSize(v.shift) ELSE << >>)}

-----------------------------------------------------------------------------
\* FTAB: flags, a count, entries with the offset of a name and the font's
\* properties, then the names.  A flag chooses between narrow entries with one
\* property and wide ones with others; a value keeps both.
FTAB == [name |-> "FTAB", shape |-> "fonts"]

FontHeader == 2
MaxFonts == 3 \* 127 in the code
WideProperties == 2

HasWideEntries(prop1) == prop1 % 2 = 1
FontEntrySize(prop1) == IF HasWideEntries(prop1) THEN 1 + WideProperties ELSE 2

NoName == [named |-> FALSE, name |-> << >>]

\* The name at offset off, which counts from 0, none when it is 0.
FontName(p, off) ==
  IF off = 0 THEN {NoName}
  ELSE {[named |-> TRUE, name |-> s.items[1]] : s \in Strings(p, off + 1, 1)}

DecodeFonts(p) ==
  IF Len(p) < FontHeader THEN {}
  ELSE LET size == FontEntrySize(p[1])
           Base(i) == FontHeader + (i - 1) * size
           Props(i) == SubSeq(p, Base(i) + 2, Base(i) + size)
           names == [i \in 1..p[2] |-> FontName(p, p[Base(i) + 1])]
       IN IF p[2] > MaxFonts \/ FontHeader + p[2] * size > Len(p) THEN {}
          ELSE IF \E i \in 1..p[2] : names[i] = {} THEN {}
          ELSE {[prop1 |-> p[1],
                 fonts |-> [i \in 1..p[2] |->
                   [narrow |-> IF HasWideEntries(p[1]) THEN << 0 >> ELSE Props(i),
                    wide |-> IF HasWideEntries(p[1]) THEN Props(i) ELSE Zeros(WideProperties)]
                   @@ CHOOSE n \in names[i] : TRUE]]}

EncodeFonts(v) ==
  LET count == Len(v.fonts)
      written == [i \in 1..count |->
                    IF v.fonts[i].named THEN WriteCut(v.fonts[i].name, MaxLength) ELSE << >>]
      Offset(i) == IF ~v.fonts[i].named THEN 0
                   ELSE FontHeader + count * FontEntrySize(v.prop1)
                        + Len(FlattenSeq(SubSeq(written, 1, i - 1)))
  IN IF count > MaxFonts \/ \E i \in 1..count : Len(v.fonts[i].name) > MaxLength THEN {}
     ELSE {<< v.prop1, count >>
           \o FlattenSeq([i \in 1..count |-> << Offset(i) >> \o
                IF HasWideEntries(v.prop1) THEN v.fonts[i].wide ELSE v.fonts[i].narrow])
           \o FlattenSeq(written)}

-----------------------------------------------------------------------------
\* vers: a packed version and the stage, here one cell each, a text with a length
\* byte, and a zero.
VERS == [name |-> "vers", shape |-> "version"]

Nibble == 4
VersionHead == 2

DecodeVersion(p) ==
  {[minor |-> p[1] \div Nibble, patch |-> p[1] % Nibble, stage |-> p[2], text |-> s.items[1]] :
     s \in {r \in IF Len(p) < VersionHead + 2 THEN {} ELSE Strings(p, VersionHead + 1, 1) :
              r.next <= Len(p)}}

EncodeVersion(v) ==
  IF v.minor >= Nibble \/ v.patch >= Nibble \/ Len(v.text) > MaxLength THEN {}
  ELSE {<< v.minor * Nibble + v.patch, v.stage >> \o WriteCut(v.text, MaxLength) \o << 0 >>}

ValidateVersion(p) ==
  IF Len(p) < VersionHead + 2 THEN {"short"}
  ELSE LET end == VersionHead + 1 + p[VersionHead + 1]
       IN IF end + 1 > Len(p) THEN {"overruns_payload"}
          ELSE IF p[end + 1] # 0 THEN {"trailer.missing"} ELSE {}

-----------------------------------------------------------------------------
\* STRG: a text with a length word; what stands behind it is a warning.
STRG == [name |-> "STRG", shape |-> "text"]

DecodeText(p) == {[text |-> s.items[1]] : s \in Strings(p, 1, 1)}

EncodeText(v) == {WriteString(v.text)}

ValidateText(p) ==
  IF p = << >> THEN {"payload.short"}
  ELSE IF 1 + p[1] > Len(p) THEN {"overruns_payload"}
  ELSE IF 1 + p[1] < Len(p) THEN {"trailing_bytes"} ELSE {}

-----------------------------------------------------------------------------
\* LVSR: a version word and words of flags.
LVSR == [name |-> "LVSR", shape |-> "flags"]

DecodeFlags(p) == IF p = << >> THEN {} ELSE {[version |-> p[1], raw |-> Rest(p, 1)]}

EncodeFlags(v) == {<< v.version >> \o v.raw}

\* The bits of a word.
Bits(w) == {b \in 0..3 : (w \div 2^b) % 2 = 1}

\* Whether any of the bits is set in the given word, FALSE when it is missing.
FlagBit(v, word, mask) == word < Len(v.raw) /\ Bits(v.raw[word + 1]) \cap mask # {}

-----------------------------------------------------------------------------
\* Compressed payloads.  compress/zlib, outside src: a stream names its
\* compressor (two of them stand for all), its length, and what it holds; bytes
\* behind it are not looked at.

OwnForm == 1
OtherForm == 2

Inflate(z) ==
  IF Len(z) < 2 THEN {}
  ELSE IF z[1] \notin {OwnForm, OtherForm} \/ z[2] > Len(z) - 2 THEN {}
  ELSE {SubSeq(z, 3, 2 + z[2])}

Deflate(x) == << OwnForm, Len(x) >> \o x

\* VCTP: the inflated size and the stream, which is kept for writing.
VCTP == [name |-> "VCTP", shape |-> "packed"]

DecodePacked(p) ==
  IF p = << >> THEN {}
  ELSE {[declared |-> p[1], inflated |-> x, compressed |-> Rest(p, 1)] :
          x \in {y \in Inflate(Rest(p, 1)) : Len(y) = p[1]}}

\* Mutants of EncodePacked: always compressed anew; the stored stream as it is.
EncodeAnew(v) ==
  IF v.declared # Len(v.inflated) THEN {} ELSE {<< v.declared >> \o Deflate(v.inflated)}
EncodeStored(v) ==
  IF v.declared # Len(v.inflated) THEN {} ELSE {<< v.declared >> \o v.compressed}

EncodePacked(v) ==
  IF v.declared # Len(v.inflated) THEN {}
  ELSE IF v.compressed = << >> THEN {<< v.declared >> \o Deflate(v.inflated)}
  ELSE {<< v.declared >> \o (IF x = v.inflated THEN v.compressed ELSE Deflate(v.inflated)) :
          x \in Inflate(v.compressed)}

ValidatePacked(p) ==
  IF p = << >> THEN {"short"}
  ELSE IF Inflate(Rest(p, 1)) = {} THEN {"zlib.invalid"}
  ELSE IF Inflate(Rest(p, 1)) = {x \in Inflate(Rest(p, 1)) : Len(x) = p[1]} THEN {}
  ELSE {"declared_size.mismatch"}

\* The envelope of a heap: the inflated bytes begin with the length of the rest.
DecodeEnvelope(p) ==
  {[declared |-> e.declared, length |-> e.inflated[1], content |-> Rest(e.inflated, 1),
    compressed |-> e.compressed] :
     e \in {x \in DecodePacked(p) :
              IF x.inflated = << >> THEN FALSE ELSE x.inflated[1] = Len(x.inflated) - 1}}

EncodeEnvelope(v) ==
  LET inflated == << v.length >> \o v.content
  IN IF v.length # Len(v.content) \/ v.declared # 1 + v.length THEN {}
     ELSE {<< v.declared >> \o (IF inflated \in Inflate(v.compressed) THEN v.compressed
                                ELSE Deflate(inflated))}

\* The tag stream in it, module Heap: an entry is as long as its first cell says.
Walkable(content) == \E n \in 0..Len(content) :
                       \E s \in Strings(content, 1, n) : s.next = Len(content) + 1

FPHB == [name |-> "FPHb", shape |-> "heap"]
BDHB == [name |-> "BDHb", shape |-> "heap"]

DecodeHeap(p) == {e \in DecodeEnvelope(p) : Walkable(e.content)}

\* Mutant of ValidateHeap: the tags are not looked at.
ValidateEnvelope(p) == IF DecodeEnvelope(p) = {} THEN {"envelope.invalid"} ELSE {}

ValidateHeap(p) ==
  IF DecodeEnvelope(p) = {} THEN {"envelope.invalid"}
  ELSE IF \E e \in DecodeEnvelope(p) : ~Walkable(e.content) THEN {"tagstream.invalid"}
  ELSE {}

-----------------------------------------------------------------------------
\* Blocks without a codec.
Opaque == [name |-> "", shape |-> "opaque"]

\* All codecs.  Links, of module Links, are told apart by their markers.
LinkCodecs == [LIvi |-> LIvi, LIfp |-> LIfp, LIbd |-> LIbd]
Link(name) == [name |-> name, shape |-> "links"]

All == {MUID, VPDP, FPSE, BDSE, RTSG, HIST, BDPW, CONP, CPC2, ICON, ICL4, ICL8, FPEX, BDEX,
        LIBN, VITS, DTHP, FTAB, VERS, STRG, LVSR, VCTP, FPHB, BDHB}
       \cup {Link(n) : n \in DOMAIN LinkCodecs}

\* The codec registered for a block type among those in known.
Lookup(known, type) ==
  IF \E c \in known : c.name = type THEN CHOOSE c \in known : c.name = type ELSE Opaque

Decode(c, p) ==
  CASE c.shape = "fixed" -> DecodeFixed(c, p)
    [] c.shape = "icon" -> DecodeIcon(c, p)
    [] c.shape = "counted" -> DecodeCounted(p)
    [] c.shape = "names" -> DecodeNames(p)
    [] c.shape = "pairs" -> DecodePairs(p)
    [] c.shape = "slice" -> DecodeSlice(p)
    [] c.shape = "fonts" -> DecodeFonts(p)
    [] c.shape = "version" -> DecodeVersion(p)
    [] c.shape = "text" -> DecodeText(p)
    [] c.shape = "flags" -> DecodeFlags(p)
    [] c.shape = "packed" -> DecodePacked(p)
    [] c.shape = "heap" -> DecodeHeap(p)
    [] c.shape = "links" -> DecodeLinks(LinkCodecs[c.name], p)
    [] OTHER -> {p}

Encode(c, v) ==
  CASE c.shape = "fixed" -> EncodeFixed(c, v)
    [] c.shape = "icon" -> EncodeIcon(c, v)
    [] c.shape = "counted" -> {<< Len(v.items) >> \o v.items}
    [] c.shape = "names" -> EncodeNames(v)
    [] c.shape = "pairs" -> EncodePairs(v)
    [] c.shape = "slice" -> EncodeSlice(v)
    [] c.shape = "fonts" -> EncodeFonts(v)
    [] c.shape = "version" -> EncodeVersion(v)
    [] c.shape = "text" -> EncodeText(v)
    [] c.shape = "flags" -> EncodeFlags(v)
    [] c.shape = "packed" -> EncodePacked(v)
    [] c.shape = "heap" -> EncodeEnvelope(v)
    [] c.name = "LIvi" -> EncodeLIvi(v)
    [] c.name = "LIfp" -> EncodeLIfp(v)
    [] c.name = "LIbd" -> EncodeLIbd(v)
    [] OTHER -> {v}

\* The errors of Validate; those that run the decoder report what it refuses.
Errors(c, p) ==
  CASE c.shape \in {"fixed", "icon"} -> IF Len(p) = c.size THEN {} ELSE {"payload.size"}
    [] c.shape = "flags" -> IF Len(p) >= 1 THEN {} ELSE {"payload.too_short"}
    [] c.shape = "version" -> ValidateVersion(p)
    [] c.shape = "text" -> ValidateText(p) \ {"trailing_bytes"}
    [] c.shape = "packed" -> ValidatePacked(p)
    [] c.shape = "heap" -> ValidateHeap(p)
    [] c.name = "LIvi" -> ValidateLIvi(p) \ {"marker.unknown"}
    [] c.name = "LIfp" -> ValidateLIfp(p)
    [] c.name = "LIbd" -> ValidateLIbd(p)
    [] c.shape = "opaque" -> {}
    [] OTHER -> IF Decode(c, p) = {} THEN {"payload.malformed"} ELSE {}

=============================================================================
