-------------------------------- MODULE Cells --------------------------------
(***************************************************************************)
(* What the payload codecs have in common: reading fields off a sequence   *)
(* of bytes.  A payload is a sequence of cells.  A cell is one field of    *)
(* fixed width, a length byte, a 32-bit count, a four-letter ident, or one *)
(* byte of text; positions and lengths count cells.  Idents are the        *)
(* numbers from FirstIdent on, and words that carry a size flag have       *)
(* WordMod values.                                                         *)
(*                                                                         *)
(* A reader returns the set of what it reads: one value, or none where the *)
(* code returns an error.  A writer returns one payload or none.           *)
(***************************************************************************)
EXTENDS Integers, Sequences, FiniteSets, SequencesExt, FiniteSetsExt

FirstIdent == 80
IsIdent(x) == x >= FirstIdent

\* What is left of p behind its first n cells.
Rest(p, n) == SubSeq(p, n + 1, Len(p))

Prefix(p, n) == SubSeq(p, 1, n)

AllZero(p) == \A i \in DOMAIN p : p[i] = 0

Zeros(n) == [i \in 1..n |-> 0]

-----------------------------------------------------------------------------
\* Strings with their length before them.

\* The n strings that start at cell i, and the cell behind them.
Strings(p, i, n) ==
  LET from[k \in 0 .. n] ==
        [j \in Nat |->
           IF k = 0 THEN {[items |-> << >>, next |-> j]}
           ELSE IF j > Len(p) THEN {}
           ELSE IF j + p[j] > Len(p) THEN {}
           ELSE {[s EXCEPT !.items = << SubSeq(p, j + 1, j + p[j]) >> \o @] :
                   s \in from[k - 1][j + 1 + p[j]]}]
  IN from[n][i]

WriteString(s) == << Len(s) >> \o s

WriteStrings(ss) == FlattenSeq([i \in DOMAIN ss |-> WriteString(ss[i])])

\* The longest string a length byte can describe, 255 in the code, and a length word
\* of 16 bits, 65535 there.  A length of 32 bits has no bound here.
MaxLength == 8
MaxWordLength == 15

\* Strings behind a field for the length that is cut to what the field holds.
WriteCut(s, max) == << Len(s) % (max + 1) >> \o s

WriteCuts(ss, max) == FlattenSeq([i \in DOMAIN ss |-> WriteCut(ss[i], max)])

SomeLonger(ss, max) == \E i \in DOMAIN ss : Len(ss[i]) > max

-----------------------------------------------------------------------------
\* Numbers that take one word, or two when the first has its top bit set.

WordMod == 16
HalfWord == WordMod \div 2
DoubleMod == WordMod * WordMod

\* The number at cell i, how it was written and the cell behind it.
VarSize(p, i) ==
  IF i > Len(p) THEN {}
  ELSE IF p[i] < HalfWord THEN {[val |-> p[i], wide |-> FALSE, next |-> i + 1]}
  ELSE IF i = Len(p) THEN {}
  ELSE {[val |-> (p[i] % HalfWord) * WordMod + (p[i + 1] % WordMod), wide |-> TRUE,
         next |-> i + 2]}

\* The numbers the wide form holds, 2^31 in the code.  Fields are 32 bits wide: the
\* top bit of a larger number is lost.
WideMod == HalfWord * WordMod

WriteWide(v) == << HalfWord + ((v \div WordMod) % HalfWord), v % WordMod >>

WriteVarSize(v) == IF v < HalfWord THEN << v >> ELSE WriteWide(v)

=============================================================================
