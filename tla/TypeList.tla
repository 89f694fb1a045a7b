------------------------------ MODULE TypeList ------------------------------
(***************************************************************************)
(* The list of types in an inflated VCTP payload (internal/codecs/vctp,    *)
(* ParseInner) and the three readers of data that follow it in pkg/lvvi:   *)
(* literals (TypedConst), flattened data (UnflattenValue) and the limits   *)
(* of numbers (HeapDataFill).  Flat indices count from 0, as in the code.  *)
(***************************************************************************)
EXTENDS Cells

-----------------------------------------------------------------------------
\* Types.  One width stands for the wider ones, in cells: Int16 for Int32 and
\* Int64, Float for all floats, Complex for all pairs of floats.

Int8 == 1
Int16 == 2
UInt8 == 3
UInt16 == 4
Float == 5
Complex == 6
BooleanU16 == 7
Boolean == 8
String == 9
Cluster == 10
Variant == 11
FixedPoint == 12

Signed == {Int8, Int16}
Unsigned == {UInt8, UInt16}
Booleans == {Boolean, BooleanU16}

Width == [t \in Signed \cup Unsigned \cup Booleans \cup {Float, Complex, FixedPoint} |->
            IF t \in {Int8, UInt8, Boolean} THEN 1 ELSE IF t = Complex THEN 4 ELSE 2]

-----------------------------------------------------------------------------
\* The list.

RecordHead == 3     \* length, flags, type
FirstPrintable == 2 \* cells below it are no text

HasLabel(flags) == flags % 2 = 1

\* Mutant of SplitTrailingLabel: the length of the label is left with the rest.
LabelBehindLength(body) ==
  LET stripped == IF body # << >> /\ Last(body) = 0 THEN Front(body) ELSE body
      starts == {i \in DOMAIN stripped : i + stripped[i] = Len(stripped)}
  IN IF starts = {} THEN [label |-> << >>, inner |-> body]
     ELSE [label |-> Rest(stripped, Min(starts)), inner |-> Prefix(body, Min(starts))]

\* A label ends the body, perhaps before one zero.  It begins at the first cell
\* that can be its length.
SplitTrailingLabel(body) ==
  LET stripped == IF body # << >> /\ Last(body) = 0 THEN Front(body) ELSE body
      starts == {i \in DOMAIN stripped :
                   /\ i + stripped[i] = Len(stripped)
                   /\ \A k \in (i + 1)..Len(stripped) : stripped[k] >= FirstPrintable}
  IN IF starts = {} THEN [label |-> << >>, inner |-> body]
     ELSE [label |-> Rest(stripped, Min(starts)), inner |-> Prefix(body, Min(starts) - 1)]

\* The record at cell pos.  One that claims to be shorter than its head makes the
\* code slice backwards, which ends the program.
Record(x, pos) ==
  IF pos + RecordHead - 1 > Len(x) THEN {}
  ELSE UNION {LET end == pos - 1 + l.val
                  flags == x[l.next]
                  body == SubSeq(x, l.next + 2, end)
                  split == IF HasLabel(flags) THEN SplitTrailingLabel(body)
                           ELSE [label |-> << >>, inner |-> body]
              IN IF l.next + 1 > Len(x) \/ end > Len(x) THEN {}
                 ELSE IF end < l.next + 1 THEN {[panic |-> TRUE]}
                 ELSE {[panic |-> FALSE, next |-> end + 1,
                        desc |-> [type |-> x[l.next + 1], flags |-> flags, length |-> l.val,
                                  label |-> split.label, inner |-> split.inner]]} :
                l \in VarSize(x, pos)}

Panicked == [panic |-> TRUE, descs |-> << >>, next |-> 0]

Records(x, pos, n) ==
  LET from[k \in 0 .. n] ==
        [i \in Nat |->
           IF k = 0 THEN {[panic |-> FALSE, descs |-> << >>, next |-> i]}
           ELSE UNION {IF r.panic THEN {Panicked}
                       ELSE {IF s.panic THEN Panicked ELSE [s EXCEPT !.descs = << r.desc >> \o @] :
                               s \in from[k - 1][r.next]} :
                         r \in Record(x, i)}]
  IN from[n][pos]

\* n numbers in a row.
VarSizes(x, pos, n) ==
  LET from[k \in 0 .. n] ==
        [i \in Nat |->
           IF k = 0 THEN {<< >>}
           ELSE UNION {{<< v.val >> \o s : s \in from[k - 1][v.next]} : v \in VarSize(x, i)}]
  IN from[n][pos]

\* Behind the records: the flat indices of the top types, or nothing.  What
\* follows them is not looked at.
TopTypes(x, pos) ==
  IF pos > Len(x) THEN {<< >>}
  ELSE UNION {VarSizes(x, c.next, c.val) : c \in VarSize(x, pos)}

ParseInner(x) ==
  IF x = << >> THEN {}
  ELSE UNION {IF r.panic THEN {[panic |-> TRUE, descs |-> << >>, tops |-> << >>]}
              ELSE {[panic |-> FALSE, descs |-> r.descs, tops |-> t] : t \in TopTypes(x, r.next)} :
                r \in Records(x, 2, x[1])}

-----------------------------------------------------------------------------
\* Numbers in bytes.

ByteMod == 4 \* 256 in the code
ByteBits == 2
MaxWord == 2 \* the longest number in bytes, 8 in the code

BigEndian(bytes) == FoldLeft(LAMBDA u, b : u * ByteMod + b, 0, bytes)

SignExtend(u, width) == IF 2 * u >= ByteMod^width THEN u - ByteMod^width ELSE u

SignExtendBits(u, bits) ==
  IF bits >= MaxWord * ByteBits THEN SignExtend(u, MaxWord)
  ELSE LET low == u % 2^bits IN IF low >= 2^(bits - 1) THEN low - 2^bits ELSE low

\* The two halves of a pair of floats, or the one float; their bits are kept.
Floats(bytes, count) == [i \in 1..count |-> SubSeq(bytes, 2 * i - 1, 2 * i)]

-----------------------------------------------------------------------------
\* Literals: typed by their place in the heap, of whatever length they are.

WidthMatches(t, n) ==
  IF t \in Booleans THEN n \in 1..2 ELSE t \in DOMAIN Width /\ Width[t] = n

FixedConfig(inner) ==
  IF Len(inner) < 3 THEN {} ELSE {c \in {[word |-> inner[2], int |-> inner[3]]} : c.word > 0}

\* A literal that is too long for a number reads as 0.
TypedConst(desc, raw) ==
  LET fits == Len(raw) \in 1..MaxWord
      u == IF fits THEN BigEndian(raw) ELSE 0
      Const(kind, num, floats, scaled) ==
        [type |-> desc.type, match |-> WidthMatches(desc.type, Len(raw)), kind |-> kind,
         num |-> num, floats |-> floats, scaled |-> scaled]
  IN CASE desc.type \in Signed ->
            Const("int", IF fits THEN SignExtend(u, Len(raw)) ELSE 0, << >>, {})
       [] desc.type \in Unsigned -> Const("uint", u, << >>, {})
       [] desc.type \in Booleans -> Const("bool", u, << >>, {})
       [] desc.type = Float ->
            Const("float", 0, IF Len(raw) >= 2 THEN Floats(raw, 1) ELSE << >>, {})
       [] desc.type = Complex ->
            Const("complex", 0, IF Len(raw) >= 4 THEN Floats(raw, 2) ELSE << >>, {})
       [] desc.type = FixedPoint ->
            Const("fixed", u, << >>,
                  {[mantissa |-> SignExtendBits(u, c.word), radix |-> c.word - c.int] :
                     c \in FixedConfig(desc.inner)})
       [] OTHER -> Const("unknown", 0, << >>, {})

-----------------------------------------------------------------------------
\* Fields of the heap that hold a number of whatever width: read both ways.

\* An unsigned number that fills the word comes out negative.
AsStdInt(raw, signed) ==
  IF Len(raw) > MaxWord THEN {}
  ELSE IF raw = << >> THEN {0}
  ELSE {SignExtend(BigEndian(raw), IF signed THEN Len(raw) ELSE MaxWord)}

ScalarContent(raw) ==
  IF Len(raw) > MaxWord THEN {}
  ELSE LET u == BigEndian(raw)
       IN {[width |-> Len(raw), unsigned |-> u,
            signed |-> IF raw = << >> THEN 0 ELSE SignExtend(u, Len(raw))]}

-----------------------------------------------------------------------------
\* Limits of numbers: a literal that may be shorter than its type.

\* Mutant of SignExtendBE: no sign.
UnsignedBE(bytes) == IF Len(bytes) > MaxWord THEN {} ELSE {BigEndian(bytes)}

SignExtendBE(bytes) ==
  IF bytes = << >> THEN {0}
  ELSE IF Len(bytes) > MaxWord THEN {} ELSE {SignExtend(BigEndian(bytes), Len(bytes))}

DataFill(t, content) ==
  LET n == SignExtendBE(content)
      num == CHOOSE x \in n : TRUE
      Fill(kind, value, floats) == [type |-> t, kind |-> kind, num |-> value, floats |-> floats]
  IN CASE t \in Signed /\ n # {} -> Fill("int", num, << >>)
       [] t \in Unsigned /\ n # {} -> Fill("uint", num % ByteMod^Width[t], << >>)
       [] t = Float /\ Len(content) = 2 -> Fill("float", 0, Floats(content, 1))
       [] OTHER -> Fill("raw", 0, << >>)

-----------------------------------------------------------------------------
\* Flattened data.

MaxDepth == 3 \* 32 in the code
StringHead == 1

\* A count and as many flat indices.
ClusterMembers(inner) ==
  IF inner = << >> THEN {}
  ELSE IF 1 + inner[1] > Len(inner) THEN {} ELSE {SubSeq(inner, 2, 1 + inner[1])}

\* Mutant of UnflattenMembers: all members are read from the start.
MembersFromStart(read, types, blob) ==
  FoldLeft(LAMBDA rs, t : UNION {{[children |-> Append(r.children, f.value), used |-> r.used + f.used] :
                                    f \in read[t][blob]} : r \in rs},
           {[children |-> << >>, used |-> 0]}, types)

\* The values of the given types, one behind the other; read gives the values of a
\* type at the start of a blob.
UnflattenMembers(read, types, blob) ==
  FoldLeft(LAMBDA rs, t : UNION {{[children |-> Append(r.children, f.value), used |-> r.used + f.used] :
                                    f \in read[t][Rest(blob, r.used)]} : r \in rs},
           {[children |-> << >>, used |-> 0]}, types)

\* The value of type i at the start of blob, and how much of blob it takes up; read
\* is for the members of a cluster.
UnflattenValue(descs, i, blob, read) ==
  LET d == descs[i + 1]
      Value(kind, raw, num, children, used) ==
        {[value |-> [kind |-> kind, type |-> d.type, label |-> d.label, raw |-> raw, num |-> num,
                     children |-> children],
          used |-> used]}
      Scalar(kind) ==
        LET w == Width[d.type]
            u == BigEndian(Prefix(blob, w))
        IN IF Len(blob) < w THEN {}
           ELSE IF kind = "float" THEN Value(kind, Prefix(blob, w), 0, << >>, w)
           ELSE Value(kind, << >>, IF kind = "int" THEN SignExtend(u, w) ELSE u, << >>, w)
  IN CASE d.type \in Signed -> Scalar("int")
       [] d.type \in Unsigned -> Scalar("uint")
       [] d.type \in Booleans -> Scalar("bool")
       [] d.type = Float -> Scalar("float")
       [] d.type = String ->
            IF blob = << >> THEN {}
            ELSE IF StringHead + blob[1] > Len(blob) THEN {}
            ELSE Value("string", SubSeq(blob, 2, 1 + blob[1]), 0, << >>, 1 + blob[1])
       [] d.type = Variant -> Value("variant", blob, 0, << >>, Len(blob))
       [] d.type = Cluster ->
            UNION {UNION {Value("cluster", << >>, 0, r.children, r.used) :
                            r \in UnflattenMembers(read, m, blob)} :
                     m \in ClusterMembers(d.inner)}
       [] OTHER -> {}

\* Clusters nest MaxDepth deep.
Unflatten(descs, i, blob) ==
  LET values[depth \in 0 .. MaxDepth + 1] ==
        [t \in Nat |-> [b \in Seq(Nat) |->
           IF t >= Len(descs) \/ depth > MaxDepth THEN {}
           ELSE UnflattenValue(descs, t, b, values[depth + 1])]]
  IN values[0][i][blob]

\* The cluster types that take up the whole blob.
ExactFits(descs, blob) ==
  {i \in 0..(Len(descs) - 1) :
     descs[i + 1].type = Cluster /\ \E f \in Unflatten(descs, i, blob) : f.used = Len(blob)}

Fit(descs, i, blob) == (CHOOSE f \in Unflatten(descs, i, blob) : TRUE).value

LabelledChildren(v) == Cardinality({k \in DOMAIN v.children : v.children[k].label # << >>})

\* Of them the one with most labels, then most members, then the first.
ResolveCompositeDefault(descs, blob) ==
  LET v == [i \in ExactFits(descs, blob) |-> Fit(descs, i, blob)]
      Better(i, j) == \/ LabelledChildren(v[i]) > LabelledChildren(v[j])
                      \/ /\ LabelledChildren(v[i]) = LabelledChildren(v[j])
                         /\ Len(v[i].children) > Len(v[j].children)
  IN IF blob = << >> THEN {}
     ELSE {i \in DOMAIN v : \A j \in DOMAIN v : ~Better(j, i) /\ (Better(i, j) \/ i <= j)}

=============================================================================
