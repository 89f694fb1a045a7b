----------------------------- MODULE HeapEntries -----------------------------
(***************************************************************************)
(* The bytes of a heap entry (internal/codecs/heap, node.go and            *)
(* varsize.go): a command word, perhaps a tag and a list of attributes,    *)
(* and content of a size the command word tells.  The command word is      *)
(* three cells: the size class, a bit for attributes with the scope, and   *)
(* the tag.  Numbers have FieldMod values per cell, and a number that does *)
(* not fit its form is written behind an escape in one cell or two.        *)
(***************************************************************************)
EXTENDS Cells

FieldMod == 8
Negative == FieldMod \div 2 \* cells from here on are negative where signs count

\* Escapes of unsigned numbers (0xFF and 0xFE) and of signed ones (-128 and -127).
LongU == FieldMod - 1
LongerU == FieldMod - 2
LongS == Negative
LongerS == Negative + 1

MaxRawTag == 7 \* 1023 in the code
TagShift == 2  \* 31 in the code
CommandSize == 3
ScopeMod == 4
VarLength == 6
FixedSizes == 1..4
BoolSizes == {0, 7}

SignedCell(x) == IF x >= Negative THEN x - FieldMod ELSE x
SignedPair(x, y) == SignedCell(x) * FieldMod + y

Read(value, next) == {[value |-> value, next |-> next]}

U124(p, i) ==
  IF i > Len(p) THEN {}
  ELSE CASE p[i] = LongU -> IF i + 1 > Len(p) THEN {} ELSE Read(p[i + 1], i + 2)
         [] p[i] = LongerU -> IF i + 2 > Len(p) THEN {} ELSE Read(p[i + 1] * FieldMod + p[i + 2], i + 3)
         [] OTHER -> Read(p[i], i + 1)

S124(p, i) ==
  IF i > Len(p) THEN {}
  ELSE CASE p[i] = LongS -> IF i + 1 > Len(p) THEN {} ELSE Read(SignedCell(p[i + 1]), i + 2)
         [] p[i] = LongerS -> IF i + 2 > Len(p) THEN {} ELSE Read(SignedPair(p[i + 1], p[i + 2]), i + 3)
         [] OTHER -> Read(SignedCell(p[i]), i + 1)

\* Two bytes in one cell, or four in two.
S24(p, i) ==
  IF i > Len(p) THEN {}
  ELSE IF p[i] # LongS THEN Read(SignedCell(p[i]), i + 1)
  ELSE IF i + 2 > Len(p) THEN {} ELSE Read(SignedPair(p[i + 1], p[i + 2]), i + 3)

\* The n attributes from cell i on.
Attributes(p, i, n) ==
  LET from[k \in 0 .. n] ==
        [j \in Nat |->
           IF k = 0 THEN Read(<< >>, j)
           ELSE UNION {UNION {{[r EXCEPT !.value = << [id |-> id.value, value |-> v.value] >> \o @] :
                                 r \in from[k - 1][v.next]} :
                                v \in S24(p, id.next)} :
                         id \in S124(p, j)}]
  IN from[n][i]

\* The explicit tag of an entry that has one.
TagOf(p, raw) ==
  IF raw # MaxRawTag THEN Read(raw - TagShift, CommandSize + 1)
  ELSE IF Len(p) < CommandSize + 2 THEN {}
  ELSE Read(SignedPair(p[CommandSize + 1], p[CommandSize + 2]), CommandSize + 3)

AttributesOf(p, i, listed) ==
  IF ~listed THEN Read(<< >>, i)
  ELSE UNION {Attributes(p, n.next, n.value) : n \in U124(p, i)}

ContentOf(p, i, size) ==
  LET Bytes(k, n) == IF k + n - 1 > Len(p) THEN {} ELSE Read(SubSeq(p, k, k + n - 1), k + n)
  IN CASE size \in BoolSizes -> Read(<< >>, i)
       [] size \in FixedSizes -> Bytes(i, size)
       [] size = VarLength -> UNION {Bytes(n.next, n.value) : n \in U124(p, i)}
       [] OTHER -> {}

\* The entry at the start of p.  Size class 5 is refused.
DecodeEntry(p) ==
  IF Len(p) < CommandSize THEN {}
  ELSE UNION {UNION {
         {[size |-> p[1], scope |-> p[2] % ScopeMod, raw |-> p[3], tag |-> t.value,
           attributes |-> a.value, content |-> c.value, bytes |-> c.next - 1] :
            c \in ContentOf(p, a.next, p[1])} :
            a \in AttributesOf(p, t.next, p[2] >= ScopeMod)} :
            t \in TagOf(p, p[3])}

\* All entries of a stream, none if one does not decode.
WalkEntries(p) ==
  LET from[i \in 1 .. Len(p) + 1] ==
        IF i > Len(p) THEN {<< >>}
        ELSE UNION {{<< e >> \o s : s \in from[i + e.bytes]} : e \in DecodeEntry(Rest(p, i - 1))}
  IN from[1]

-----------------------------------------------------------------------------
\* What an entry looks like with every number in its shortest form.

WritePair(v) == << (v \div FieldMod) % FieldMod, v % FieldMod >>

WriteU124(v) ==
  IF v < LongerU THEN << v >> ELSE IF v < FieldMod THEN << LongU, v >> ELSE << LongerU >> \o WritePair(v)

\* The two lowest signed cells are escapes.
WriteS124(v) ==
  IF v \in (2 - Negative)..(Negative - 1) THEN << v % FieldMod >>
  ELSE IF v \in (-Negative)..(Negative - 1) THEN << LongS, v % FieldMod >>
  ELSE << LongerS >> \o WritePair(v)

WriteS24(v) ==
  IF v \in (1 - Negative)..(Negative - 1) THEN << v % FieldMod >> ELSE << LongS >> \o WritePair(v)

WriteHeapEntry(e) ==
  << e.size, IF e.attributes = << >> THEN e.scope ELSE ScopeMod + e.scope, e.raw >>
  \o (IF e.raw = MaxRawTag THEN WritePair(e.tag) ELSE << >>)
  \o (IF e.attributes = << >> THEN << >>
      ELSE WriteU124(Len(e.attributes))
           \o FlattenSeq([k \in DOMAIN e.attributes |->
                            WriteS124(e.attributes[k].id) \o WriteS24(e.attributes[k].value)]))
  \o (IF e.size = VarLength THEN WriteU124(Len(e.content)) ELSE << >>)
  \o e.content

\* What is kept of the entries of a stream is enough to write them again: in the
\* same cells, unless a number was written longer than it had to be or a list of
\* attributes was empty.
EntriesAreWhole(p) ==
  \A w \in WalkEntries(p) :
    LET short == FlattenSeq([k \in DOMAIN w |-> WriteHeapEntry(w[k])])
        Bare(s) == [k \in DOMAIN s |-> [s[k] EXCEPT !.bytes = 0]]
    IN /\ {Bare(s) : s \in WalkEntries(short)} = {Bare(w)}
       /\ Len(short) <= Len(p)
       /\ Len(short) = Len(p) => short = p

=============================================================================
