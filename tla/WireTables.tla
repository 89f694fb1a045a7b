----------------------------- MODULE WireTables ------------------------------
(***************************************************************************)
(* The compressed table of a wire (pkg/lvvi, wire.go): a count, a mode and *)
(* numbers whose form depends on the mode, and the shapes of wires they    *)
(* are taken for.  A cell is one byte here; the modes have their values.   *)
(***************************************************************************)
EXTENDS TypeList

AutoChain == 8
ManualChain == 4
Tree == 0
OtherMode == 255

Escape == ByteMod - 1 \* begins a number of two bytes
HalfByte == ByteMod \div 2
NumberMod == 8        \* numbers of a manual chain, 2^64 in the code
Margin == 2           \* 16 in the code

-----------------------------------------------------------------------------
\* The numbers of a table.

\* Bytes, or two behind an escape.  An escape that is cut off ends the list.
AutoGeometry(p) ==
  LET from[i \in 1 .. Len(p) + 1] ==
        IF i > Len(p) THEN << >>
        ELSE IF p[i] # Escape THEN << p[i] >> \o from[i + 1]
        ELSE IF i + 2 > Len(p) THEN << >>
        ELSE << BigEndian(SubSeq(p, i + 1, i + 2)) >> \o from[i + 3]
  IN from[1]

\* Digits from the lowest up, each but the last of a number with the top bit set;
\* what does not fit the word is lost, and so is a number without its last digit.
ManualGeometry(p) ==
  LET Digit(acc, b) ==
        LET v == (acc.value + (b % HalfByte) * HalfByte^acc.place) % NumberMod
        IN IF b < HalfByte THEN [numbers |-> Append(acc.numbers, v), value |-> 0, place |-> 0]
           ELSE [acc EXCEPT !.value = v, !.place = @ + 1]
  IN FoldLeft(Digit, [numbers |-> << >>, value |-> 0, place |-> 0], p).numbers

\* Pairs; an odd byte is dropped.
TreeRecords(p) == [k \in 1..(Len(p) \div 2) |-> << p[2 * k - 1], p[2 * k] >>]

WireMode(b) == IF b \in {AutoChain, ManualChain, Tree} THEN b ELSE OtherMode

HeapWire(content) ==
  IF Len(content) < 2 THEN {}
  ELSE LET mode == WireMode(content[2])
           p == Rest(content, 2)
       IN {[waypoints |-> content[1], mode |-> mode, raw |-> content,
            geometry |-> CASE mode = AutoChain -> AutoGeometry(p)
                           [] mode = ManualChain -> ManualGeometry(p)
                           [] OTHER -> << >>,
            records |-> IF mode = Tree THEN TreeRecords(p) ELSE << >>]}

-----------------------------------------------------------------------------
\* The shapes.

\* A straight line, or one step up or down.
ChainAutoPath(w) ==
  LET g == w.geometry IN
  IF w.mode # AutoChain THEN {}
  ELSE IF g = << >> THEN {[straight |-> TRUE, step |-> 0, anchor |-> 0]}
  ELSE IF Len(g) = 4 /\ g[1] \in {0, 1}
       THEN {[straight |-> FALSE, step |-> IF g[1] = 0 THEN g[4] ELSE -g[4], anchor |-> g[3]]}
  ELSE {}

\* A way back around the source: of the bytes, not the numbers.
LeftwardChainPath(w) ==
  LET p == Rest(w.raw, 2) IN
  IF w.mode # AutoChain \/ w.waypoints # 6 \/ Len(p) # 8 THEN {}
  ELSE IF /\ p[2] = 1 /\ p[4] = 0 /\ p[5] = Margin /\ p[6] = Margin
          /\ {p[1], p[3]} = {0, 1} /\ p[8] >= Margin
       THEN {[up |-> p[1] = 0, pixels |-> p[8] - Margin, seed |-> p[7]]}
  ELSE {}

Branches(w) == IF w.mode = Tree /\ w.waypoints \in {6, 7} THEN w.waypoints - 4 ELSE 0

\* Two or three branches behind three records.
TreeEndpoints(w) ==
  LET n == Branches(w) IN
  IF n = 0 \/ Len(w.records) # n + 3 THEN {}
  ELSE {[i \in 1..n |-> [v |-> w.records[3 + i][1], h |-> w.records[3 + i][2]]]}

-----------------------------------------------------------------------------
\* How numbers are written in short form.

WriteAuto(n) == IF n < Escape THEN << n >> ELSE << Escape, n \div ByteMod, n % ByteMod >>

WriteManual(n) ==
  LET digits[m \in 0 .. n] ==
        IF m < HalfByte THEN << m >>
        ELSE << HalfByte + (m % HalfByte) >> \o digits[m \div HalfByte]
  IN digits[n]

\* The numbers of a table survive being written in short form, which is what the
\* table holds unless it says something at length or is cut off behind it.
NumbersAreWhole(w) ==
  w.mode \in {AutoChain, ManualChain} =>
    LET short == FlattenSeq([k \in DOMAIN w.geometry |->
                   IF w.mode = AutoChain THEN WriteAuto(w.geometry[k]) ELSE WriteManual(w.geometry[k])])
        p == Rest(w.raw, 2)
    IN /\ \A x \in HeapWire(Prefix(w.raw, 2) \o short) : x.geometry = w.geometry
       /\ Len(short) = Len(p) => short = p
       /\ Len(short) <= Len(p)

=============================================================================
