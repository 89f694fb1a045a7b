--------------------------- MODULE PayloadsProofs ---------------------------
(***************************************************************************)
(* Proofs about module Payloads: what the readers of payloads agree on,    *)
(* for every payload of every family.                                      *)
(***************************************************************************)
EXTENDS Payloads, TLAPS, SequenceTheorems, WellFoundedInduction

-----------------------------------------------------------------------------
(***************************************************************************)
(* A payload is put together from its family's pieces.                     *)
(***************************************************************************)

\* The cells of a family: words in lists of types, fields in entries of a heap.
CellsOf(n) ==
  IF n \in {"types", "records"} THEN 0..(WordMod - 1)
  ELSE IF n = "entries" THEN 0..(FieldMod - 1) ELSE Nat

PayloadsInv == family \in DOMAIN Families /\ payload \in Seq(CellsOf(family))

LEMMA CellsAreNumbers ==
  ASSUME NEW n, NEW p \in Seq(CellsOf(n))
  PROVE  p \in Seq(Nat)
<1>1. CellsOf(n) \subseteq Nat BY DEF CellsOf, WordMod, FieldMod
<1> QED BY <1>1, SeqMonotonic

LEMMA PayloadsTyped == Spec => []PayloadsInv
<1>1. Init => PayloadsInv
  <2> SUFFICES ASSUME Init PROVE PayloadsInv OBVIOUS
  <2>1. << >> \in Seq(CellsOf(family)) OBVIOUS
  <2> QED BY <2>1 DEF Init, PayloadsInv
<1>2. PayloadsInv /\ [Next]_vars => PayloadsInv'
  <2> SUFFICES ASSUME PayloadsInv, [Next]_vars PROVE PayloadsInv' OBVIOUS
  <2>1. CASE Grow
    <3>1. PICK piece \in Families[family].pieces : payload' = payload \o piece /\ family' = family
      BY <2>1 DEF Grow
    <3>2. piece \in Seq(CellsOf(family)) BY FamiliesAssumption DEF PayloadsInv, CellsOf
    <3>3. payload \o piece \in Seq(CellsOf(family)) BY <3>2, ConcatProperties DEF PayloadsInv
    <3> QED BY <3>1, <3>3 DEF PayloadsInv
  <2>2. CASE UNCHANGED vars BY <2>2 DEF vars, PayloadsInv
  <2> QED BY <2>1, <2>2 DEF Next
<1> QED BY <1>1, <1>2, PTL DEF Spec

LEMMA CasesAre ==
  ASSUME PayloadsInv, NEW x \in Cases
  PROVE  /\ x = << x[1], x[2] >>
         /\ x[1] \in Families[family].codecs
         /\ x[1] \in All
         /\ x[2] \in Inputs(x[1])
         /\ x[2] \in Seq(Nat)
<1>1. PICK c \in Families[family].codecs : x \in {c} \X Inputs(c) BY DEF Cases
<1>2. x = << x[1], x[2] >> /\ x[1] = c /\ x[2] \in Inputs(c) BY <1>1
<1>3. c \in All BY FamiliesAssumption DEF PayloadsInv
<1>4. payload \in Seq(Nat) BY CellsAreNumbers DEF PayloadsInv
<1>5. \A m \in {FPHP, LVIN}, n \in 1..2 : << 1, m, n >> \o payload \in Seq(Nat)
  <2> SUFFICES ASSUME NEW m \in {FPHP, LVIN}, NEW n \in 1..2
               PROVE  << 1, m, n >> \o payload \in Seq(Nat)
    OBVIOUS
  <2>1. << 1, m, n >> \in Seq(Nat) BY DEF FPHP, LVIN, FirstIdent
  <2> QED BY <1>4, <2>1, ConcatProperties
<1>6. \A p \in Inputs(c) : p \in Seq(Nat)
  <2>1. CASE c.shape = "links"
    <3> DEFINE With(m, n) == << 1, m, n >> \o payload
    <3>1. Inputs(c) = {With(m, n) : m \in {FPHP, LVIN}, n \in 1..2} BY <2>1 DEF Inputs
    <3>2. \A m \in {FPHP, LVIN}, n \in 1..2 : With(m, n) \in Seq(Nat) BY <1>5
    <3> HIDE DEF With
    <3> QED BY <3>1, <3>2
  <2>2. CASE c.shape # "links" BY <1>4, <2>2 DEF Inputs
  <2> QED BY <2>1, <2>2
<1> QED BY <1>2, <1>3, <1>6

-----------------------------------------------------------------------------
(***************************************************************************)
(* Least numbers.                                                          *)
(***************************************************************************)

IsFirst(S, m) == m \in S /\ \A j \in S : m <= j

\* Induction over numbers, for a set of them.
LEMMA LeastNumber ==
  ASSUME NEW S \in SUBSET Nat, S # {}
  PROVE  \E m : IsFirst(S, m)
<1> DEFINE R == OpToRel(<, Nat)
<1>1. \A m, n \in Nat : << m, n >> \in R <=> m < n BY DEF OpToRel
<1>2. PICK m \in S : \A n \in S : << n, m >> \notin R
  <2> HIDE DEF R
  <2>1. IsWellFoundedOn(R, Nat) BY NatLessThanWellFounded DEF R
  <2> QED BY <2>1, WFMin, Zenon
<1> HIDE DEF R
<1>3. \A n \in S : n \in Nat /\ m \in Nat /\ ~(n < m) BY <1>1, <1>2
<1>4. \A n \in S : m <= n BY <1>3
<1> QED BY <1>2, <1>4 DEF IsFirst

\* What holds of a number once it holds of all smaller ones holds of all.
LEMMA FromBelow ==
  ASSUME NEW S, NEW n \in Nat,
         \A i \in 0 .. n : (\A j \in 0 .. i - 1 : j \in S) => i \in S
  PROVE  \A i \in 0 .. n : i \in S
<1> DEFINE T == {i \in 0 .. n : i \notin S}
<1> SUFFICES ASSUME T # {} PROVE FALSE
  OBVIOUS
<1>1. PICK m : IsFirst(T, m) BY LeastNumber
<1>2. m \in 0 .. n /\ m \notin S /\ \A j \in 0 .. n : j \notin S => m <= j
  BY <1>1 DEF IsFirst
<1>3. \A j \in 0 .. m - 1 : j \in S BY <1>2
<1> QED BY <1>2, <1>3

-----------------------------------------------------------------------------
(***************************************************************************)
(* Strings with a length byte.                                             *)
(***************************************************************************)

StringsAt(f, p, k) ==
  [j \in Nat |->
     IF k = 0 THEN {[items |-> << >>, next |-> j]}
     ELSE IF j > Len(p) THEN {}
     ELSE IF j + p[j] > Len(p) THEN {}
     ELSE {[s EXCEPT !.items = << SubSeq(p, j + 1, j + p[j]) >> \o @] :
             s \in f[k - 1][j + 1 + p[j]]}]

StringsFrom(p, n) == CHOOSE f : f = [k \in 0 .. n |-> StringsAt(f, p, k)]

LEMMA StringsExist ==
  ASSUME NEW p, NEW n \in Nat
  PROVE  \A k \in 0 .. n : StringsFrom(p, n)[k] = StringsAt(StringsFrom(p, n), p, k)
<1> DEFINE P(m, f) == f = [k \in 0 .. m |-> StringsAt(f, p, k)]
           S == {m \in 0 .. n : \E f : P(m, f)}
<1>1. ASSUME NEW m \in 0 .. n, \A k \in 0 .. m - 1 : k \in S PROVE m \in S
  <2>1. PICK f : \A k \in 0 .. m - 1 : f[k] = StringsAt(f, p, k)
    <3>1. CASE m = 0
      <4>1. 0 .. m - 1 = {} BY <3>1
      <4> QED BY <4>1
    <3>2. CASE m # 0
      <4>1. m - 1 \in 0 .. m - 1 BY <3>2
      <4>2. PICK f : P(m - 1, f) BY <1>1, <4>1
      <4> HIDE DEF S
      <4>3. \A k \in 0 .. m - 1 : f[k] = StringsAt(f, p, k) BY <4>2
      <4> QED BY <4>3
    <3> QED BY <3>1, <3>2
  <2> DEFINE g == [k \in 0 .. m |-> StringsAt(f, p, k)]
  <2>2. \A k \in 0 .. m : g[k] = StringsAt(f, p, k) OBVIOUS
  <2>3. g = [k \in 0 .. m |-> g[k]] OBVIOUS
  <2> HIDE DEF g, S
  <2>4. \A k \in 0 .. m - 1 : g[k] = f[k] BY <2>1, <2>2
  <2>5. ASSUME NEW k \in 0 .. m PROVE StringsAt(g, p, k) = StringsAt(f, p, k)
    <3>1. CASE k = 0 BY <3>1 DEF StringsAt
    <3>2. CASE k # 0
      <4>1. k - 1 \in 0 .. m - 1 BY <3>2
      <4>2. g[k - 1] = f[k - 1] BY <2>4, <4>1
      <4> QED BY <4>2 DEF StringsAt
    <3> QED BY <3>1, <3>2
  <2>6. P(m, g) BY <2>2, <2>3, <2>5
  <2> HIDE DEF P
  <2> QED BY <2>6 DEF S
<1>2. n \in S
  <2> HIDE DEF S
  <2>1. n \in 0 .. n OBVIOUS
  <2> QED BY <1>1, <2>1, FromBelow
<1>3. P(n, StringsFrom(p, n)) BY <1>2 DEF StringsFrom
<1> QED BY <1>3


\* How many strings are asked for in the end does not matter for the first k.
LEMMA StringsSame ==
  ASSUME NEW p, NEW m \in Nat, NEW n \in Nat, NEW k \in 0 .. m, k <= n
  PROVE  StringsFrom(p, m)[k] = StringsFrom(p, n)[k]
<1> DEFINE f == StringsFrom(p, m)
           g == StringsFrom(p, n)
           S == {i \in 0 .. m : i <= n => f[i] = g[i]}
<1>1. /\ \A i \in 0 .. m : f[i] = StringsAt(f, p, i)
      /\ \A i \in 0 .. n : g[i] = StringsAt(g, p, i)
  BY StringsExist
<1> HIDE DEF f, g
<1>2. ASSUME NEW i \in 0 .. m, \A j \in 0 .. i - 1 : j \in S PROVE i \in S
  <2> SUFFICES ASSUME i <= n PROVE f[i] = g[i] OBVIOUS
  <2>1. StringsAt(f, p, i) = StringsAt(g, p, i)
    <3>1. CASE i = 0 BY <3>1 DEF StringsAt
    <3>2. CASE i # 0
      <4>1. i - 1 \in 0 .. i - 1 /\ i - 1 <= n BY <3>2
      <4>2. f[i - 1] = g[i - 1] BY <1>2, <4>1
      <4> QED BY <4>2 DEF StringsAt
    <3> QED BY <3>1, <3>2
  <2> QED BY <1>1, <2>1
<1>3. k \in S
  <2> HIDE DEF S
  <2> QED BY <1>2, FromBelow
<1> QED BY <1>3 DEF f, g

LEMMA StringsFound ==
  ASSUME NEW p, NEW i \in Nat, NEW n \in Nat
  PROVE  Strings(p, i, n) = StringsFrom(p, n)[n][i]
BY DEF Strings, StringsFrom, StringsAt

LEMMA StringsNone ==
  ASSUME NEW p, NEW i \in Nat
  PROVE  Strings(p, i, 0) = {[items |-> << >>, next |-> i]}
<1>1. StringsFrom(p, 0)[0] = StringsAt(StringsFrom(p, 0), p, 0) BY StringsExist
<1> QED BY <1>1, StringsFound DEF StringsAt

LEMMA StringsRefused ==
  ASSUME NEW p, NEW i \in Nat, NEW n \in Nat \ {0}, i > Len(p) \/ i + p[i] > Len(p)
  PROVE  Strings(p, i, n) = {}
<1>1. StringsFrom(p, n)[n] = StringsAt(StringsFrom(p, n), p, n) BY StringsExist
<1>2. \A f : StringsAt(f, p, n)[i] = {}
  <2> TAKE f
  <2>1. CASE i > Len(p) BY <2>1 DEF StringsAt
  <2>2. CASE ~(i > Len(p)) BY <2>2 DEF StringsAt
  <2> QED BY <2>1, <2>2
<1>3. StringsFrom(p, n)[n][i] = {} BY <1>1, <1>2
<1> QED BY <1>3, StringsFound

Before(h, s) == [s EXCEPT !.items = << h >> \o @]

\* One string and then the others.
LEMMA StringsNext ==
  ASSUME NEW p \in Seq(Nat), NEW i \in Nat \ {0}, NEW n \in Nat \ {0},
         ~(i > Len(p)), ~(i + p[i] > Len(p))
  PROVE  /\ i + 1 + p[i] \in Nat \ {0}
         /\ Strings(p, i, n) = {Before(SubSeq(p, i + 1, i + p[i]), s) :
                                  s \in Strings(p, i + 1 + p[i], n - 1)}
<1> DEFINE l == i + 1 + p[i]
           head == SubSeq(p, i + 1, i + p[i])
<1>1. l \in Nat \ {0}
  <2>1. i \in 1 .. Len(p) OBVIOUS
  <2>2. p[i] \in Nat BY <2>1, ElementOfSeq
  <2> QED BY <2>2
<1>2. StringsFrom(p, n)[n] = StringsAt(StringsFrom(p, n), p, n) BY StringsExist
<1>3. n - 1 \in Nat /\ n - 1 \in 0 .. n - 1 /\ n - 1 <= n OBVIOUS
<1>4. StringsFrom(p, n - 1)[n - 1] = StringsFrom(p, n)[n - 1] BY <1>3, StringsSame
<1>5. StringsAt(StringsFrom(p, n), p, n)[i]
        = {Before(head, s) : s \in StringsFrom(p, n)[n - 1][l]}
  BY DEF StringsAt, Before
<1> HIDE DEF l, head
<1>6. Strings(p, l, n - 1) = StringsFrom(p, n)[n - 1][l] BY <1>1, <1>3, <1>4, StringsFound
<1>7. Strings(p, i, n) = StringsFrom(p, n)[n][i] BY StringsFound
<1>8. Strings(p, i, n) = {Before(head, s) : s \in Strings(p, l, n - 1)}
  BY <1>2, <1>5, <1>6, <1>7
<1> QED BY <1>1, <1>8 DEF l, head

\* A single string.
LEMMA StringIs ==
  ASSUME NEW p \in Seq(Nat), NEW i \in Nat \ {0}, ~(i > Len(p)), ~(i + p[i] > Len(p))
  PROVE  Strings(p, i, 1)
           = {[items |-> << SubSeq(p, i + 1, i + p[i]) >>, next |-> i + 1 + p[i]]}
<1> DEFINE j == i + 1 + p[i]
           h == SubSeq(p, i + 1, i + p[i])
<1>1. j \in Nat \ {0} BY StringsNext
<1>2. Strings(p, i, 1) = {Before(h, x) : x \in Strings(p, j, 0)}
  <2>1. 1 \in Nat \ {0} OBVIOUS
  <2>3. Strings(p, i, 1) = {Before(SubSeq(p, i + 1, i + p[i]), x) : x \in Strings(p, i + 1 + p[i], 1 - 1)}
    BY <2>1, StringsNext
  <2>2. 1 - 1 = 0 OBVIOUS
  <2> QED BY <2>2, <2>3
<1> HIDE DEF j
<1>3. Strings(p, j, 0) = {[items |-> << >>, next |-> j]} BY <1>1, StringsNone
<1>4. h \in Seq(Nat)
  <2>1. i \in 1 .. Len(p) OBVIOUS
  <2>2. p[i] \in Nat BY <2>1, ElementOfSeq
  <2>3. \A m \in i + 1 .. i + p[i] : p[m] \in Nat BY <2>2
  <2>4. i + 1 \in Int /\ i + p[i] \in Int BY <2>2
  <2> QED BY <2>3, <2>4, SubSeqProperties
<1> HIDE DEF h
<1>5. << h >> \o << >> = << h >> BY <1>4
<1>6. Before(h, [items |-> << >>, next |-> j]) = [items |-> << h >>, next |-> j]
  BY <1>5 DEF Before
<1>7. Strings(p, i, 1) = {[items |-> << h >>, next |-> j]} BY <1>2, <1>3, <1>6
<1> QED BY <1>7 DEF j, h

-----------------------------------------------------------------------------
(***************************************************************************)
(* Validate reports what Decode refuses.                                   *)
(***************************************************************************)

Reported(c, p) == (Decode(c, p) = {}) <=> (Errors(c, p) \ {"trailer.missing"} # {})

LEMMA ShapesAre ==
  ASSUME NEW c \in All
  PROVE  \/ /\ c.shape \in {"fixed", "icon", "counted", "names", "pairs", "slice", "fonts", "version",
                           "text", "flags", "packed", "heap"}
            /\ c.name \notin {"LIvi", "LIfp", "LIbd"}
         \/ c = Link("LIvi") \/ c = Link("LIfp") \/ c = Link("LIbd")
BY DEF All, MUID, VPDP, FPSE, BDSE, RTSG, HIST, BDPW, CONP, CPC2, ICON, ICL4, ICL8, FPEX, BDEX,
       LIBN, VITS, DTHP, FTAB, VERS, STRG, LVSR, VCTP, FPHB, BDHB, Fixed, Icon, LinkCodecs, Link

LEMMA VersionReported ==
  ASSUME NEW p \in Seq(Nat)
  PROVE  (DecodeVersion(p) = {}) <=> (ValidateVersion(p) \ {"trailer.missing"} # {})
<1> DEFINE i == VersionHead + 1
           found == {r \in IF Len(p) < VersionHead + 2 THEN {} ELSE Strings(p, i, 1) : r.next <= Len(p)}
<1>1. DecodeVersion(p) = {} <=> found = {} BY DEF DecodeVersion
<1>2. i = 3 /\ VersionHead = 2 BY DEF VersionHead
<1>3. CASE Len(p) < 4
  <2>1. found = {} BY <1>2, <1>3
  <2>2. ValidateVersion(p) = {"short"} BY <1>2, <1>3 DEF ValidateVersion
  <2> QED BY <1>1, <2>1, <2>2
<1>4. CASE ~(Len(p) < 4) /\ 3 + p[3] > Len(p)
  <2>1. Strings(p, 3, 1) = {} BY <1>4, StringsRefused
  <2>2. found = {} BY <1>2, <2>1
  <2>3. 3 \in 1 .. Len(p) BY <1>4
  <2>4. p[3] \in Nat BY <2>3, ElementOfSeq
  <2>5. ValidateVersion(p) = {"overruns_payload"} BY <1>2, <1>4, <2>4 DEF ValidateVersion
  <2> QED BY <1>1, <2>2, <2>5
<1>5. CASE ~(Len(p) < 4) /\ ~(3 + p[3] > Len(p))
  <2> DEFINE s == [items |-> << SubSeq(p, 3 + 1, 3 + p[3]) >>, next |-> 3 + 1 + p[3]]
  <2> HIDE DEF found, i
  <2>7. 3 \in Nat \ {0} OBVIOUS
  <2>1. Strings(p, 3, 1) = {s}
    <3>1. \A j \in Nat \ {0} : ~(j > Len(p)) /\ ~(j + p[j] > Len(p)) =>
            Strings(p, j, 1) = {[items |-> << SubSeq(p, j + 1, j + p[j]) >>, next |-> j + 1 + p[j]]}
      BY StringIs
    <3>2. ~(3 > Len(p)) /\ ~(3 + p[3] > Len(p)) BY <1>5
    <3> QED BY <2>7, <3>1, <3>2, Zenon
  <2>2. 3 \in 1 .. Len(p) BY <1>5
  <2>3. p[3] \in Nat BY <2>2, ElementOfSeq
  <2>4. s.next = 4 + p[3] BY <2>3
  <2> HIDE DEF s
  <2>5. found = {} <=> ~(4 + p[3] <= Len(p)) BY <1>2, <1>5, <2>1, <2>4 DEF found, i
  <2>6. (ValidateVersion(p) \ {"trailer.missing"} # {}) <=> 4 + p[3] > Len(p)
    <3>1. ValidateVersion(p) = IF 3 + p[3] + 1 > Len(p) THEN {"overruns_payload"}
                               ELSE IF p[3 + p[3] + 1] # 0 THEN {"trailer.missing"} ELSE {}
      BY <1>2, <1>5 DEF ValidateVersion
    <3>2. 3 + p[3] + 1 > Len(p) <=> 4 + p[3] > Len(p) BY <2>3
    <3>3. CASE 3 + p[3] + 1 > Len(p)
      <4>1. ValidateVersion(p) = {"overruns_payload"} BY <3>1, <3>3
      <4> QED BY <3>2, <3>3, <4>1
    <3>4. CASE ~(3 + p[3] + 1 > Len(p))
      <4>1. ValidateVersion(p) \subseteq {"trailer.missing"} BY <3>1, <3>4
      <4> QED BY <3>2, <3>4, <4>1
    <3> QED BY <3>3, <3>4
  <2> QED BY <1>1, <2>3, <2>5, <2>6
<1> QED BY <1>3, <1>4, <1>5

LEMMA TextReported ==
  ASSUME NEW p \in Seq(Nat)
  PROVE  (DecodeText(p) = {}) <=> (ValidateText(p) \ {"trailing_bytes"} # {})
<1>1. DecodeText(p) = {} <=> Strings(p, 1, 1) = {} BY DEF DecodeText
<1>2. p = << >> <=> 1 > Len(p) BY EmptySeq
<1>3. CASE 1 > Len(p)
  <2>1. Strings(p, 1, 1) = {} BY <1>3, StringsRefused
  <2>2. ValidateText(p) = {"payload.short"} BY <1>2, <1>3 DEF ValidateText
  <2> QED BY <1>1, <2>1, <2>2
<1>4. CASE ~(1 > Len(p)) /\ 1 + p[1] > Len(p)
  <2>1. Strings(p, 1, 1) = {} BY <1>4, StringsRefused
  <2>2. ValidateText(p) = {"overruns_payload"} BY <1>2, <1>4 DEF ValidateText
  <2> QED BY <1>1, <2>1, <2>2
<1>5. CASE ~(1 > Len(p)) /\ ~(1 + p[1] > Len(p))
  <2>3. 1 \in Nat \ {0} OBVIOUS
  <2>4. Strings(p, 1, 1) = {[items |-> << SubSeq(p, 1 + 1, 1 + p[1]) >>, next |-> 1 + 1 + p[1]]}
    BY <1>5, <2>3, StringIs
  <2>1. Strings(p, 1, 1) # {} BY <2>4
  <2>2. ValidateText(p) \ {"trailing_bytes"} = {} BY <1>2, <1>5 DEF ValidateText
  <2> QED BY <1>1, <2>1, <2>2
<1> QED BY <1>3, <1>4, <1>5

LEMMA PackedReported ==
  ASSUME NEW p
  PROVE  (DecodePacked(p) = {}) <=> (ValidatePacked(p) # {})
<1> DEFINE z == Inflate(Rest(p, 1))
           fit == {x \in z : Len(x) = p[1]}
<1>1. \A x, y \in z : x = y BY DEF Inflate
<1>2. p # << >> => (DecodePacked(p) = {} <=> fit = {}) BY DEF DecodePacked
<1>3. p = << >> => DecodePacked(p) = {} /\ ValidatePacked(p) # {} BY DEF DecodePacked, ValidatePacked
<1>4. p # << >> => ValidatePacked(p) = IF z = {} THEN {"zlib.invalid"} ELSE IF z = fit THEN {}
                                       ELSE {"declared_size.mismatch"}
  BY DEF ValidatePacked
<1> HIDE DEF z
<1>5. z = {} => fit = {} OBVIOUS
<1>6. z # {} => (z = fit <=> fit # {}) BY <1>1
<1> HIDE DEF fit
<1> QED BY <1>2, <1>3, <1>4, <1>5, <1>6

\* The envelope of a heap is read in one way at most, so that either the entries
\* in it can be told apart or not.
LEMMA HeapReported ==
  ASSUME NEW p
  PROVE  (DecodeHeap(p) = {}) <=> (ValidateHeap(p) # {})
<1>1. \A x, y \in Inflate(Rest(p, 1)) : x = y BY DEF Inflate
<1>2. \A x, y \in DecodePacked(p) : x = y BY <1>1 DEF DecodePacked
<1>3. \A x, y \in DecodeEnvelope(p) : x = y BY <1>2 DEF DecodeEnvelope
<1> QED BY <1>3 DEF DecodeHeap, ValidateHeap

\* The markers Validate knows are those Decode reads, but for LIvi.
LEMMA LinksReported ==
  ASSUME NEW c, NEW p, c.markers = {} \/ c.markers = c.known
  PROVE  \/ (DecodeLinks(c, p) = {}) <=> (ValidateLinks(c, p) \ {"marker.unknown"} # {})
         \/ ValidateLinks(c, p) = {"marker.unknown"}
<1>1. CASE Len(p) < HeaderSize + FooterSize BY <1>1 DEF DecodeLinks, ValidateLinks
<1>2. CASE ~(Len(p) < HeaderSize + FooterSize) /\ p[2] \notin c.known
  <2>1. CASE c.markers = {} BY <1>2, <2>1 DEF ValidateLinks
  <2>2. CASE c.markers # {} BY <1>2, <2>2 DEF ValidateLinks, DecodeLinks
  <2> QED BY <2>1, <2>2
<1>3. CASE ~(Len(p) < HeaderSize + FooterSize) /\ p[2] \in c.known
  <2>1. ValidateLinks(c, p) = IF DecodeLinks(c, p) = {} THEN {"decode.invalid"} ELSE {}
    BY <1>3 DEF ValidateLinks
  <2> QED BY <2>1
<1> QED BY <1>1, <1>2, <1>3

LEMMA AllReported == PayloadsInv => ErrorsReported
<1> SUFFICES ASSUME PayloadsInv, NEW x \in Cases
             PROVE  \/ Reported(x[1], x[2])
                    \/ x[1] = Link("LIvi") /\ ValidateLinks(LIvi, x[2]) = {"marker.unknown"}
  BY DEF ErrorsReported, Reported
<1> DEFINE c == x[1]
           p == x[2]
<1>1. c \in All /\ p \in Seq(Nat) BY CasesAre
<1> HIDE DEF c, p
<1>2. CASE c.shape \in {"fixed", "icon"} /\ c.name \notin {"LIvi", "LIfp", "LIbd"}
  <2>1. Errors(c, p) = IF Len(p) = c.size THEN {} ELSE {"payload.size"} BY <1>2 DEF Errors
  <2>2. Decode(c, p) = {} <=> Len(p) # c.size BY <1>2 DEF Decode, DecodeFixed, DecodeIcon
  <2> QED BY <2>1, <2>2 DEF Reported, c, p
<1>3. CASE c.shape = "flags" /\ c.name \notin {"LIvi", "LIfp", "LIbd"}
  <2>1. Errors(c, p) = IF Len(p) >= 1 THEN {} ELSE {"payload.too_short"} BY <1>3 DEF Errors
  <2>2. Decode(c, p) = {} <=> p = << >> BY <1>3 DEF Decode, DecodeFlags
  <2>3. p = << >> <=> ~(Len(p) >= 1) BY <1>1, EmptySeq
  <2> QED BY <2>1, <2>2, <2>3 DEF Reported, c, p
<1>4. CASE c.shape = "version" /\ c.name \notin {"LIvi", "LIfp", "LIbd"}
  <2>1. Errors(c, p) = ValidateVersion(p) /\ Decode(c, p) = DecodeVersion(p)
    BY <1>4 DEF Errors, Decode
  <2> QED BY <1>1, <2>1, VersionReported DEF Reported, c, p
<1>5. CASE c.shape = "text" /\ c.name \notin {"LIvi", "LIfp", "LIbd"}
  <2>1. Errors(c, p) = ValidateText(p) \ {"trailing_bytes"} /\ Decode(c, p) = DecodeText(p)
    BY <1>5 DEF Errors, Decode
  <2>2. "trailer.missing" \notin ValidateText(p) BY DEF ValidateText
  <2> QED BY <1>1, <2>1, <2>2, TextReported DEF Reported, c, p
<1>6. CASE c.shape = "packed" /\ c.name \notin {"LIvi", "LIfp", "LIbd"}
  <2>1. Errors(c, p) = ValidatePacked(p) /\ Decode(c, p) = DecodePacked(p)
    BY <1>6 DEF Errors, Decode
  <2>2. "trailer.missing" \notin ValidatePacked(p) BY DEF ValidatePacked
  <2> QED BY <2>1, <2>2, PackedReported DEF Reported, c, p
<1>7. CASE c.shape = "heap" /\ c.name \notin {"LIvi", "LIfp", "LIbd"}
  <2>1. Errors(c, p) = ValidateHeap(p) /\ Decode(c, p) = DecodeHeap(p)
    BY <1>7 DEF Errors, Decode
  <2>2. "trailer.missing" \notin ValidateHeap(p) BY DEF ValidateHeap
  <2> QED BY <2>1, <2>2, HeapReported DEF Reported, c, p
<1>8. CASE /\ c.shape \in {"counted", "names", "pairs", "slice", "fonts"}
           /\ c.name \notin {"LIvi", "LIfp", "LIbd"}
  <2>1. Errors(c, p) = IF Decode(c, p) = {} THEN {"payload.malformed"} ELSE {} BY <1>8 DEF Errors
  <2> QED BY <2>1 DEF Reported, c, p
<1>9. CASE c = Link("LIvi")
  <2>1. c.shape = "links" /\ c.name = "LIvi" BY <1>9 DEF Link
  <2>2. Errors(c, p) = ValidateLinks(LIvi, p) \ {"marker.unknown"} /\ Decode(c, p) = DecodeLinks(LIvi, p)
    BY <2>1 DEF Errors, Decode, ValidateLIvi, LinkCodecs
  <2>3. LIvi.markers = {} BY DEF LIvi
  <2>4. "trailer.missing" \notin ValidateLinks(LIvi, p) BY DEF ValidateLinks
  <2>5. \/ (DecodeLinks(LIvi, p) = {}) <=> (ValidateLinks(LIvi, p) \ {"marker.unknown"} # {})
        \/ ValidateLinks(LIvi, p) = {"marker.unknown"}
    BY <2>3, LinksReported
  <2> QED BY <1>9, <2>2, <2>4, <2>5 DEF Reported, c, p
<1>10. CASE c = Link("LIfp")
  <2>1. c.shape = "links" /\ c.name = "LIfp" BY <1>10 DEF Link
  <2>2. Errors(c, p) = ValidateLinks(LIfp, p) /\ Decode(c, p) = DecodeLinks(LIfp, p)
    BY <2>1 DEF Errors, Decode, ValidateLIfp, LinkCodecs
  <2>3. LIfp.markers = LIfp.known /\ LIfp.markers # {} BY DEF LIfp
  <2>4. ValidateLinks(LIfp, p) \cap {"trailer.missing", "marker.unknown"} = {}
    BY <2>3 DEF ValidateLinks
  <2>5. \/ (DecodeLinks(LIfp, p) = {}) <=> (ValidateLinks(LIfp, p) \ {"marker.unknown"} # {})
        \/ ValidateLinks(LIfp, p) = {"marker.unknown"}
    BY <2>3, LinksReported
  <2> QED BY <2>2, <2>4, <2>5 DEF Reported, c, p
<1>11. CASE c = Link("LIbd")
  <2>1. c.shape = "links" /\ c.name = "LIbd" BY <1>11 DEF Link
  <2>2. Errors(c, p) = ValidateLinks(LIbd, p) /\ Decode(c, p) = DecodeLinks(LIbd, p)
    BY <2>1 DEF Errors, Decode, ValidateLIbd, LinkCodecs
  <2>3. LIbd.markers = LIbd.known /\ LIbd.markers # {} BY DEF LIbd
  <2>4. ValidateLinks(LIbd, p) \cap {"trailer.missing", "marker.unknown"} = {}
    BY <2>3 DEF ValidateLinks
  <2>5. \/ (DecodeLinks(LIbd, p) = {}) <=> (ValidateLinks(LIbd, p) \ {"marker.unknown"} # {})
        \/ ValidateLinks(LIbd, p) = {"marker.unknown"}
    BY <2>3, LinksReported
  <2> QED BY <2>2, <2>4, <2>5 DEF Reported, c, p
<1>12. \/ /\ \/ c.shape \in {"fixed", "icon"} \/ c.shape = "flags" \/ c.shape = "version"
             \/ c.shape = "text" \/ c.shape = "packed" \/ c.shape = "heap"
             \/ c.shape \in {"counted", "names", "pairs", "slice", "fonts"}
          /\ c.name \notin {"LIvi", "LIfp", "LIbd"}
       \/ c = Link("LIvi") \/ c = Link("LIfp") \/ c = Link("LIbd")
  BY <1>1, ShapesAre
<1> QED BY <1>2, <1>3, <1>4, <1>5, <1>6, <1>7, <1>8, <1>9, <1>10, <1>11, <1>12

\* Validate reports an error for exactly the payloads its codec refuses, whatever
\* they hold: of the versions it refuses more only those without their trailer, and
\* a list of LIvi with a marker it does not know it does not look into.
THEOREM ErrorsAlwaysReported == Spec => []ErrorsReported
<1> QED BY AllReported, PayloadsTyped, PTL

-----------------------------------------------------------------------------
(***************************************************************************)
(* The readers of numbers agree.                                           *)
(***************************************************************************)

\* A number from its bytes.
DigitsAt(f, b, s) ==
  IF s = {} THEN 0 ELSE f[s \ {Max(s)}] * ByteMod + b[Max(s)]

DigitsFrom(b) == CHOOSE f : f = [s \in SUBSET DOMAIN b |-> DigitsAt(f, b, s)]

LEMMA BigEndianIs ==
  ASSUME NEW b
  PROVE  BigEndian(b) = DigitsFrom(b)[DOMAIN b]
BY DEF BigEndian, FoldLeft, MapThenFoldSet, DigitsFrom, DigitsAt

LEMMA MaxIs ==
  /\ Max({1}) = 1 /\ Max({2}) = 2 /\ Max({1, 2}) = 2
<1>1. ASSUME NEW s, NEW m \in s, \A y \in s : m >= y, \A y \in s : y \in Nat PROVE Max(s) = m
  <2>1. \A x \in s : (\A y \in s : x >= y) => x = m BY <1>1
  <2> QED BY <1>1, <2>1 DEF Max
<1> QED BY <1>1

LEMMA BigEndianRange ==
  ASSUME NEW b \in Seq(0 .. ByteMod - 1)
  PROVE  /\ Len(b) = 1 => BigEndian(b) \in 0 .. 3
         /\ Len(b) = 2 => BigEndian(b) \in 0 .. 15
<1> DEFINE one == {1}
           two == {2}
           both == {1, 2}
<1>1. Max(one) = 1 /\ Max(two) = 2 /\ Max(both) = 2 BY MaxIs
<1>2. 1 \in one /\ {} = one \ {1} /\ 2 \in two /\ {} = two \ {2} /\ 2 \in both /\ one = both \ {2}
  OBVIOUS
<1>3. /\ {} # one /\ {} # two /\ {} # both
      /\ one # two /\ one # both /\ two # both
      /\ \A s \in SUBSET {1} : s = {} \/ s = one
      /\ \A s \in SUBSET {1, 2} : s = {} \/ s = one \/ s = two \/ s = both
      /\ one \in SUBSET {1} /\ {} \in SUBSET {1} /\ one \in SUBSET {1, 2} /\ {} \in SUBSET {1, 2}
      /\ both \in SUBSET {1, 2} /\ both = {1, 2} /\ one = {1}
  <2>1. {} # one /\ {} # two /\ {} # both OBVIOUS
  <2>2. one # two /\ one # both /\ two # both
    <3>1. 1 \in one /\ 1 \notin two /\ 1 \in both /\ 2 \notin one /\ 2 \in both OBVIOUS
    <3> HIDE DEF one, two, both
    <3> QED BY <3>1
  <2>3. \A s \in SUBSET {1} : s = {} \/ s = one OBVIOUS
  <2>4. \A s \in SUBSET {1, 2} : s = {} \/ s = one \/ s = two \/ s = both
    <3> TAKE s \in SUBSET {1, 2}
    <3>1. CASE 1 \in s /\ 2 \in s BY <3>1
    <3>2. CASE 1 \in s /\ 2 \notin s BY <3>2
    <3>3. CASE 1 \notin s /\ 2 \in s BY <3>3
    <3>4. CASE 1 \notin s /\ 2 \notin s BY <3>4
    <3> QED BY <3>1, <3>2, <3>3, <3>4
  <2>5. one \in SUBSET {1} /\ {} \in SUBSET {1} /\ one \in SUBSET {1, 2} /\ {} \in SUBSET {1, 2}
    OBVIOUS
  <2>6. both \in SUBSET {1, 2} /\ both = {1, 2} /\ one = {1} OBVIOUS
  <2> HIDE DEF one, two, both
  <2> QED BY <2>1, <2>2, <2>3, <2>4, <2>5, <2>6
<1> HIDE DEF one, two, both
<1>4. ASSUME NEW f, NEW v, f[{}] = v
      PROVE  DigitsAt(f, b, one) = v * 4 + b[1] /\ DigitsAt(f, b, two) = v * 4 + b[2]
  <2>1. one \ {Max(one)} = {} /\ b[Max(one)] = b[1] /\ one # {} BY <1>1, <1>2
  <2>2. two \ {Max(two)} = {} /\ b[Max(two)] = b[2] /\ two # {} BY <1>1, <1>2
  <2>3. DigitsAt(f, b, one) = v * 4 + b[1] BY <1>4, <2>1 DEF DigitsAt, ByteMod
  <2>4. DigitsAt(f, b, two) = v * 4 + b[2] BY <1>4, <2>2 DEF DigitsAt, ByteMod
  <2> QED BY <2>3, <2>4
<1>5. ASSUME NEW f, NEW v, f[one] = v
      PROVE  DigitsAt(f, b, both) = v * 4 + b[2]
  <2>1. both \ {Max(both)} = one /\ b[Max(both)] = b[2] /\ both # {} BY <1>1, <1>2
  <2> QED BY <1>5, <2>1 DEF DigitsAt, ByteMod
<1>6. \A f : DigitsAt(f, b, {}) = 0 BY DEF DigitsAt
<1>7. CASE Len(b) = 1
  <2>1. DOMAIN b = {1} BY <1>7
  <2>2. b[1] \in 0 .. 3 BY <1>7 DEF ByteMod
  <2> DEFINE g == [s \in SUBSET DOMAIN b |-> IF s = {} THEN 0 ELSE 0 * 4 + b[1]]
  <2>3. g[{}] = 0 /\ g[one] = 0 * 4 + b[1] BY <2>1, <1>3
  <2>4. ASSUME NEW s \in SUBSET DOMAIN b PROVE g[s] = DigitsAt(g, b, s)
    <3> HIDE DEF g
    <3>1. CASE s = {} BY <1>6, <2>3, <3>1
    <3>2. CASE s = one BY <1>4, <2>3, <3>2
    <3> QED BY <1>3, <2>1, <3>1, <3>2
  <2>5. g = [s \in SUBSET DOMAIN b |-> DigitsAt(g, b, s)] BY <2>4
  <2>6. DigitsFrom(b) = [s \in SUBSET DOMAIN b |-> DigitsAt(DigitsFrom(b), b, s)]
    BY <2>5 DEF DigitsFrom
  <2>7. DigitsFrom(b)[{}] = 0 BY <1>3, <1>6, <2>1, <2>6
  <2>8. DigitsFrom(b)[one] = 0 * 4 + b[1] BY <1>3, <1>4, <2>1, <2>6, <2>7
  <2>9. BigEndian(b) = DigitsFrom(b)[one] BY <1>3, <2>1, BigEndianIs
  <2> QED BY <1>7, <2>2, <2>8, <2>9
<1>8. CASE Len(b) = 2
  <2>1. DOMAIN b = {1, 2} BY <1>8
  <2>2. b[1] \in 0 .. 3 /\ b[2] \in 0 .. 3 BY <1>8 DEF ByteMod
  <2> DEFINE g == [s \in SUBSET DOMAIN b |->
                     IF s = {} THEN 0 ELSE IF s = one THEN 0 * 4 + b[1]
                     ELSE IF s = two THEN 0 * 4 + b[2] ELSE (0 * 4 + b[1]) * 4 + b[2]]
  <2>3. g[{}] = 0 /\ g[one] = 0 * 4 + b[1] BY <2>1, <1>3
  <2>4. ASSUME NEW s \in SUBSET DOMAIN b PROVE g[s] = DigitsAt(g, b, s)
    <3>1. s = two => g[s] = 0 * 4 + b[2] BY <1>3
    <3>2. s = both => g[s] = (0 * 4 + b[1]) * 4 + b[2] BY <1>3
    <3> HIDE DEF g
    <3>3. CASE s = {} BY <1>6, <2>3, <3>3
    <3>4. CASE s = one BY <1>4, <2>3, <3>4
    <3>5. CASE s = two BY <1>4, <2>3, <3>1, <3>5
    <3>6. CASE s = both BY <1>5, <2>3, <3>2, <3>6
    <3> QED BY <1>3, <2>1, <3>3, <3>4, <3>5, <3>6
  <2>5. g = [s \in SUBSET DOMAIN b |-> DigitsAt(g, b, s)] BY <2>4
  <2>6. DigitsFrom(b) = [s \in SUBSET DOMAIN b |-> DigitsAt(DigitsFrom(b), b, s)]
    BY <2>5 DEF DigitsFrom
  <2>7. DigitsFrom(b)[{}] = 0 BY <1>3, <1>6, <2>1, <2>6
  <2>8. DigitsFrom(b)[one] = 0 * 4 + b[1] BY <1>3, <1>4, <2>1, <2>6, <2>7
  <2>9. DigitsFrom(b)[both] = (0 * 4 + b[1]) * 4 + b[2] BY <1>3, <1>5, <2>1, <2>6, <2>8
  <2>10. BigEndian(b) = DigitsFrom(b)[both] BY <1>3, <2>1, BigEndianIs
  <2> QED BY <1>8, <2>2, <2>9, <2>10
<1> QED BY <1>7, <1>8

ValuesAt(f, descs, depth) ==
  [t \in Nat |-> [b \in Seq(Nat) |->
     IF t >= Len(descs) \/ depth > MaxDepth THEN {}
     ELSE UnflattenValue(descs, t, b, f[depth + 1])]]

ValuesFrom(descs) ==
  CHOOSE f : f = [depth \in 0 .. MaxDepth + 1 |-> ValuesAt(f, descs, depth)]

\* Depth bounds the nesting, so that values can be made from the deepest on.
LEMMA ValuesExist ==
  ASSUME NEW descs
  PROVE  \A depth \in 0 .. MaxDepth + 1 : ValuesFrom(descs)[depth] = ValuesAt(ValuesFrom(descs), descs, depth)
<1> DEFINE Over(v, depth) == [t \in Nat |-> [b \in Seq(Nat) |->
              IF t >= Len(descs) \/ depth > MaxDepth THEN {} ELSE UnflattenValue(descs, t, b, v)]]
           four == Over({}, 4)
           three == Over(four, 3)
           two == Over(three, 2)
           one == Over(two, 1)
           none == Over(one, 0)
           g == [depth \in 0 .. 4 |-> CASE depth = 4 -> four [] depth = 3 -> three [] depth = 2 -> two
                                       [] depth = 1 -> one [] OTHER -> none]
<1>1. \A f, v, depth : f[depth + 1] = v => ValuesAt(f, descs, depth) = Over(v, depth)
  BY DEF ValuesAt
<1>2. \A f : ValuesAt(f, descs, 4) = Over({}, 4)
  <2>1. 4 > MaxDepth BY DEF MaxDepth
  <2> QED BY <2>1 DEF ValuesAt
<1> HIDE DEF Over
<1>3. four = Over({}, 4) /\ three = Over(four, 3) /\ two = Over(three, 2) /\ one = Over(two, 1)
      /\ none = Over(one, 0)
  OBVIOUS
<1> HIDE DEF four, three, two, one, none
<1>4. g[4] = four /\ g[3] = three /\ g[2] = two /\ g[1] = one /\ g[0] = none OBVIOUS
<1>5. \A depth \in 0 .. 4 : g[depth] = ValuesAt(g, descs, depth)
  <2> HIDE DEF g
  <2>1. 3 + 1 = 4 /\ 2 + 1 = 3 /\ 1 + 1 = 2 /\ 0 + 1 = 1 OBVIOUS
  <2>2. g[4] = ValuesAt(g, descs, 4) BY <1>2, <1>3, <1>4
  <2>3. g[3] = ValuesAt(g, descs, 3) BY <1>1, <1>3, <1>4, <2>1
  <2>4. g[2] = ValuesAt(g, descs, 2) BY <1>1, <1>3, <1>4, <2>1
  <2>5. g[1] = ValuesAt(g, descs, 1) BY <1>1, <1>3, <1>4, <2>1
  <2>6. g[0] = ValuesAt(g, descs, 0) BY <1>1, <1>3, <1>4, <2>1
  <2>7. \A depth \in 0 .. 4 : depth = 0 \/ depth = 1 \/ depth = 2 \/ depth = 3 \/ depth = 4 OBVIOUS
  <2> QED BY <2>2, <2>3, <2>4, <2>5, <2>6, <2>7
<1>6. g = [depth \in 0 .. 4 |-> ValuesAt(g, descs, depth)]
  <2>1. g = [depth \in 0 .. 4 |-> g[depth]] OBVIOUS
  <2> HIDE DEF g
  <2> QED BY <1>5, <2>1
<1>7. ValuesFrom(descs) = [depth \in 0 .. 4 |-> ValuesAt(ValuesFrom(descs), descs, depth)]
  <2> HIDE DEF g
  <2> QED BY <1>6 DEF ValuesFrom, MaxDepth
<1> QED BY <1>7 DEF MaxDepth

LEMMA UnflattenIs ==
  ASSUME NEW descs, NEW i \in Nat, NEW b \in Seq(Nat), NEW f \in Unflatten(descs, i, b)
  PROVE  f \in UnflattenValue(descs, i, b, ValuesFrom(descs)[1])
<1>1. Unflatten(descs, i, b) = ValuesFrom(descs)[0][i][b]
  BY DEF Unflatten, ValuesFrom, ValuesAt
<1>2. ValuesFrom(descs)[0] = ValuesAt(ValuesFrom(descs), descs, 0) BY ValuesExist DEF MaxDepth
<1>3. ValuesAt(ValuesFrom(descs), descs, 0)[i][b]
        = IF i >= Len(descs) \/ 0 > MaxDepth THEN {}
          ELSE UnflattenValue(descs, i, b, ValuesFrom(descs)[0 + 1])
  BY DEF ValuesAt
<1>4. 0 + 1 = 1 OBVIOUS
<1> QED BY <1>1, <1>2, <1>3, <1>4

LEMMA WidthIs ==
  /\ DOMAIN Width = 1 .. 8 \cup {12}
  /\ Width[Int8] = 1 /\ Width[UInt8] = 1 /\ Width[Int16] = 2 /\ Width[UInt16] = 2
BY DEF Width, Signed, Unsigned, Booleans, Int8, Int16, UInt8, UInt16, Boolean, BooleanU16, Float, FixedPoint, Complex

\* A number of flattened data.
LEMMA NumberIs ==
  ASSUME NEW descs, NEW i, NEW b, NEW read,
         NEW f \in UnflattenValue(descs, i, b, read), f.value.kind \in {"int", "uint"}
  PROVE  LET t == descs[i + 1].type IN
         /\ f.used = Width[t] /\ ~(Len(b) < Width[t])
         /\ \/ /\ t \in Signed /\ f.value.kind = "int"
               /\ f.value.num = SignExtend(BigEndian(Prefix(b, Width[t])), Width[t])
            \/ /\ t \in Unsigned /\ f.value.kind = "uint"
               /\ f.value.num = BigEndian(Prefix(b, Width[t]))
<1> DEFINE t == descs[i + 1].type
           w == Width[t]
<1>1. CASE t \in Signed
  <2>1. t \notin Unsigned /\ t \notin Booleans BY <1>1 DEF Signed, Unsigned, Booleans, Int8, Int16, UInt8, UInt16, Boolean, BooleanU16
  <2> QED BY <1>1, <2>1 DEF UnflattenValue
<1>2. CASE t \in Unsigned
  <2>1. t \notin Signed BY <1>2 DEF Signed, Unsigned, Int8, Int16, UInt8, UInt16
  <2> QED BY <1>2, <2>1 DEF UnflattenValue
<1>3. CASE t \notin Signed /\ t \notin Unsigned
  <2>1. f.value.kind \notin {"int", "uint"} BY <1>3 DEF UnflattenValue
  <2> QED BY <2>1
<1> QED BY <1>1, <1>2, <1>3

\* The powers that occur.
LEMMA PowersAre == ByteMod = 4 /\ ByteMod^1 = 4 /\ ByteMod^2 = 16 /\ MaxWord = 2
BY DEF ByteMod, MaxWord

LEMMA SignExtendIs ==
  ASSUME NEW u \in Int
  PROVE  /\ SignExtend(u, 1) = IF 2 * u >= 4 THEN u - 4 ELSE u
         /\ SignExtend(u, 2) = IF 2 * u >= 16 THEN u - 16 ELSE u
BY PowersAre DEF SignExtend

NumberAgrees(d, b, kind, num) ==
  /\ TypedConst(d, b).match
  /\ TypedConst(d, b).kind = kind /\ TypedConst(d, b).num = num
  /\ DataFill(d.type, b).kind = kind /\ DataFill(d.type, b).num = num
  /\ \E x \in AsStdInt(b, kind = "int") : (x - num) % ByteMod^MaxWord = 0
  /\ \A x \in ScalarContent(b) :
       num = IF kind = "int" THEN x.signed ELSE x.unsigned

LEMMA SignedAgree ==
  ASSUME NEW d, d.type \in Signed, NEW b \in Seq(0 .. ByteMod - 1), Len(b) = Width[d.type]
  PROVE  NumberAgrees(d, b, "int", SignExtend(BigEndian(b), Len(b)))
<1> DEFINE u == BigEndian(b)
           n == SignExtend(u, Len(b))
<1>1. Len(b) \in 1 .. 2 /\ MaxWord = 2 BY WidthIs, PowersAre DEF Signed
<1>2. b # << >> BY <1>1
<1>3. /\ d.type \notin Unsigned /\ d.type \notin Booleans /\ d.type \in DOMAIN Width
      /\ d.type # Float /\ d.type # Complex /\ d.type # FixedPoint
  BY WidthIs DEF Signed, Unsigned, Booleans, Int8, Int16, UInt8, UInt16, Boolean, BooleanU16, Float,
                 Complex, FixedPoint
<1>4. u \in Int
  <2>1. CASE Len(b) = 1
    <3>1. u \in 0 .. 3 BY <2>1, BigEndianRange
    <3> HIDE DEF u
    <3> QED BY <3>1
  <2>2. CASE Len(b) = 2
    <3>1. u \in 0 .. 15 BY <2>2, BigEndianRange
    <3> HIDE DEF u
    <3> QED BY <3>1
  <2> QED BY <1>1, <2>1, <2>2
<1>5. n \in Int
  <2>1. CASE Len(b) = 1 BY <1>4, <2>1, SignExtendIs
  <2>2. CASE Len(b) = 2 BY <1>4, <2>2, SignExtendIs
  <2> QED BY <1>1, <2>1, <2>2
<1>6. WidthMatches(d.type, Len(b)) BY <1>3 DEF WidthMatches
<1>7. SignExtendBE(b) = {n} BY <1>1, <1>2 DEF SignExtendBE
<1>8. AsStdInt(b, TRUE) = {n} BY <1>1, <1>2 DEF AsStdInt
<1>9. \A x \in ScalarContent(b) : n = x.signed BY <1>1, <1>2 DEF ScalarContent
<1> HIDE DEF n, u
<1>10. /\ TypedConst(d, b).match = WidthMatches(d.type, Len(b))
       /\ TypedConst(d, b).kind = "int"
       /\ TypedConst(d, b).num = n
  <2>1. Len(b) \in 1 .. MaxWord BY <1>1
  <2> DEFINE Const(kind, num) == [type |-> d.type, match |-> WidthMatches(d.type, Len(b)), kind |-> kind,
                                  num |-> num, floats |-> << >>, scaled |-> {}]
  <2>2. TypedConst(d, b) = Const("int", n) BY <1>3, <2>1, Zenon DEF TypedConst, n, u
  <2> QED BY <2>2
<1>11. (CHOOSE x \in {n} : TRUE) = n OBVIOUS
<1>12. DataFill(d.type, b).kind = "int" /\ DataFill(d.type, b).num = n
  <2> DEFINE Fill(kind, num) == [type |-> d.type, kind |-> kind, num |-> num, floats |-> << >>]
  <2>1. DataFill(d.type, b) = Fill("int", CHOOSE x \in {n} : TRUE)
    BY <1>3, <1>7, Zenon DEF DataFill
  <2> QED BY <1>11, <2>1
<1>13. (n - n) % ByteMod^MaxWord = 0 BY <1>5, PowersAre
<1> QED BY <1>6, <1>8, <1>9, <1>10, <1>12, <1>13 DEF NumberAgrees, n, u

LEMMA UnsignedAgree ==
  ASSUME NEW d, d.type \in Unsigned, NEW b \in Seq(0 .. ByteMod - 1), Len(b) = Width[d.type]
  PROVE  NumberAgrees(d, b, "uint", BigEndian(b))
<1> DEFINE u == BigEndian(b)
           n == SignExtend(u, Len(b))
           m == SignExtend(u, 2)
<1>1. Len(b) \in 1 .. 2 /\ MaxWord = 2 BY WidthIs, PowersAre DEF Unsigned
<1>2. b # << >> BY <1>1
<1>3. /\ d.type \notin Signed /\ d.type \notin Booleans /\ d.type \in DOMAIN Width
      /\ d.type # Float /\ d.type # Complex /\ d.type # FixedPoint
  BY WidthIs DEF Signed, Unsigned, Booleans, Int8, Int16, UInt8, UInt16, Boolean, BooleanU16, Float,
                 Complex, FixedPoint
<1>4. u \in 0 .. 15 /\ (Len(b) = 1 => u \in 0 .. 3)
  <2>1. CASE Len(b) = 1
    <3>1. u \in 0 .. 3 BY <2>1, BigEndianRange
    <3> HIDE DEF u
    <3> QED BY <3>1
  <2>2. CASE Len(b) = 2 BY <2>2, BigEndianRange
  <2> QED BY <1>1, <2>1, <2>2
<1>5. n % ByteMod^Len(b) = u
  <2>1. CASE Len(b) = 1 BY <1>4, <2>1, SignExtendIs, PowersAre
  <2>2. CASE Len(b) = 2 BY <1>4, <2>2, SignExtendIs, PowersAre
  <2> QED BY <1>1, <2>1, <2>2
<1>6. WidthMatches(d.type, Len(b)) BY <1>3 DEF WidthMatches
<1>7. SignExtendBE(b) = {n} BY <1>1, <1>2 DEF SignExtendBE
<1>8. AsStdInt(b, FALSE) = {m} BY <1>1, <1>2 DEF AsStdInt
<1>9. \A x \in ScalarContent(b) : u = x.unsigned BY <1>1, <1>2 DEF ScalarContent
<1>13. (m - u) % ByteMod^MaxWord = 0 BY <1>4, SignExtendIs, PowersAre
<1> HIDE DEF n, u, m
<1>10. /\ TypedConst(d, b).match = WidthMatches(d.type, Len(b))
       /\ TypedConst(d, b).kind = "uint"
       /\ TypedConst(d, b).num = u
  <2>1. Len(b) \in 1 .. MaxWord BY <1>1
  <2> DEFINE Const(kind, num) == [type |-> d.type, match |-> WidthMatches(d.type, Len(b)), kind |-> kind,
                                  num |-> num, floats |-> << >>, scaled |-> {}]
  <2>2. TypedConst(d, b) = Const("uint", u) BY <1>3, <2>1, Zenon DEF TypedConst, u
  <2> QED BY <2>2
<1>11. (CHOOSE x \in {n} : TRUE) = n OBVIOUS
<1>12. DataFill(d.type, b).kind = "uint" /\ DataFill(d.type, b).num = u
  <2> DEFINE Fill(kind, num) == [type |-> d.type, kind |-> kind, num |-> num, floats |-> << >>]
  <2>1. DataFill(d.type, b)
          = Fill("uint", (CHOOSE x \in {n} : TRUE) % ByteMod^Width[d.type])
    BY <1>3, <1>7, Zenon DEF DataFill
  <2> QED BY <1>5, <1>11, <2>1
<1> QED BY <1>6, <1>8, <1>9, <1>10, <1>12, <1>13 DEF NumberAgrees, u

\* Whatever list of types and whatever data.
LEMMA AllAgree == ReadersAgree
<1> SUFFICES ASSUME NEW r \in TypeLists, NEW i \in 0 .. (Len(r.descs) - 1), NEW b \in Blobs,
                    NEW f \in Unflatten(r.descs, i, b), f.used = Len(b),
                    f.value.kind \in {"int", "uint"}
             PROVE  NumberAgrees(r.descs[i + 1], b, f.value.kind, f.value.num)
  BY DEF ReadersAgree, NumberAgrees
<1>1. b \in Seq(0 .. ByteMod - 1) /\ b \in Seq(Nat)
  <2>1. b \in Seq(0 .. ByteMod - 1) BY BlobsAssumption
  <2>2. 0 .. ByteMod - 1 \subseteq Nat BY PowersAre
  <2> QED BY <2>1, <2>2, SeqMonotonic
<1>2. i \in Nat OBVIOUS
<1> DEFINE t == r.descs[i + 1].type
<1>3. f \in UnflattenValue(r.descs, i, b, ValuesFrom(r.descs)[1]) BY <1>1, <1>2, UnflattenIs
<1>4. /\ Len(b) = Width[t]
      /\ \/ /\ t \in Signed /\ f.value.kind = "int"
            /\ f.value.num = SignExtend(BigEndian(Prefix(b, Width[t])), Width[t])
         \/ /\ t \in Unsigned /\ f.value.kind = "uint"
            /\ f.value.num = BigEndian(Prefix(b, Width[t]))
  BY <1>3, NumberIs
<1>5. Prefix(b, Len(b)) = b BY <1>1 DEF Prefix
<1> QED BY <1>1, <1>4, <1>5, SignedAgree, UnsignedAgree

\* A number is the same whichever reader comes by it, for all lists of types and all
\* data: as flattened data, as a literal, as a limit, or as a field of the heap, where
\* an unsigned number that fills the word may only have the wrong sign.
THEOREM ReadersAlwaysAgree == Spec => []ReadersAgree
<1>1. PayloadsInv => ReadersAgree BY AllAgree
<1> QED BY <1>1, PayloadsTyped, PTL

-----------------------------------------------------------------------------
(***************************************************************************)
(* The records of a type list.                                             *)
(***************************************************************************)

RecordsAt(f, x, k) ==
  [i \in Nat |->
     IF k = 0 THEN {[panic |-> FALSE, descs |-> << >>, next |-> i]}
     ELSE UNION {IF r.panic THEN {Panicked}
                 ELSE {IF s.panic THEN Panicked ELSE [s EXCEPT !.descs = << r.desc >> \o @] :
                         s \in f[k - 1][r.next]} :
                   r \in Record(x, i)}]

RecordsFrom(x, n) == CHOOSE f : f = [k \in 0 .. n |-> RecordsAt(f, x, k)]

LEMMA RecordsExist ==
  ASSUME NEW x, NEW n \in Nat
  PROVE  \A k \in 0 .. n : RecordsFrom(x, n)[k] = RecordsAt(RecordsFrom(x, n), x, k)
<1> DEFINE P(m, f) == f = [k \in 0 .. m |-> RecordsAt(f, x, k)]
           S == {m \in 0 .. n : \E f : P(m, f)}
<1>1. ASSUME NEW m \in 0 .. n, \A k \in 0 .. m - 1 : k \in S PROVE m \in S
  <2>1. PICK f : \A k \in 0 .. m - 1 : f[k] = RecordsAt(f, x, k)
    <3>1. CASE m = 0
      <4>1. 0 .. m - 1 = {} BY <3>1
      <4> QED BY <4>1
    <3>2. CASE m # 0
      <4>1. m - 1 \in 0 .. m - 1 BY <3>2
      <4>2. PICK f : P(m - 1, f) BY <1>1, <4>1
      <4> HIDE DEF S
      <4>3. \A k \in 0 .. m - 1 : f[k] = RecordsAt(f, x, k) BY <4>2
      <4> QED BY <4>3
    <3> QED BY <3>1, <3>2
  <2> DEFINE g == [k \in 0 .. m |-> RecordsAt(f, x, k)]
  <2>2. \A k \in 0 .. m : g[k] = RecordsAt(f, x, k) OBVIOUS
  <2>3. g = [k \in 0 .. m |-> g[k]] OBVIOUS
  <2> HIDE DEF g, S
  <2>4. \A k \in 0 .. m - 1 : g[k] = f[k] BY <2>1, <2>2
  <2>5. ASSUME NEW k \in 0 .. m PROVE RecordsAt(g, x, k) = RecordsAt(f, x, k)
    <3>1. CASE k = 0 BY <3>1 DEF RecordsAt
    <3>2. CASE k # 0
      <4>1. k - 1 \in 0 .. m - 1 BY <3>2
      <4>2. g[k - 1] = f[k - 1] BY <2>4, <4>1
      <4> QED BY <3>2, <4>2 DEF RecordsAt
    <3> QED BY <3>1, <3>2
  <2>6. P(m, g) BY <2>2, <2>3, <2>5
  <2> HIDE DEF P
  <2> QED BY <2>6 DEF S
<1>2. n \in S
  <2> HIDE DEF S
  <2>1. n \in 0 .. n OBVIOUS
  <2> QED BY <1>1, <2>1, FromBelow
<1>3. P(n, RecordsFrom(x, n)) BY <1>2 DEF RecordsFrom
<1> QED BY <1>3

LEMMA RecordsFound ==
  ASSUME NEW x, NEW i \in Nat, NEW n \in Nat
  PROVE  Records(x, i, n) = RecordsFrom(x, n)[n][i]
BY DEF Records, RecordsFrom, RecordsAt

\* A number of variable size is written in the cells it was read from.
LEMMA VarSizeIs ==
  ASSUME NEW x \in Seq(0 .. WordMod - 1), NEW i \in Nat \ {0}, NEW l \in VarSize(x, i)
  PROVE  /\ i \in 1 .. Len(x)
         /\ l.val \in Nat
         /\ \/ l.next = i + 1 /\ x[i] < HalfWord /\ l.val = x[i]
            \/ l.next = i + 2 /\ x[i] >= HalfWord /\ i + 1 \in 1 .. Len(x)
               /\ WriteWide(l.val) = << x[i], x[i + 1] >>
<1>1. ~(i > Len(x)) BY DEF VarSize
<1>2. i \in 1 .. Len(x) BY <1>1
<1>3. x[i] \in 0 .. 15 BY <1>2 DEF WordMod
<1>4. WordMod = 16 /\ HalfWord = 8 BY DEF WordMod, HalfWord
<1>5. CASE x[i] < HalfWord
  <2>1. l = [val |-> x[i], wide |-> FALSE, next |-> i + 1] BY <1>1, <1>5 DEF VarSize
  <2> QED BY <1>2, <1>3, <1>5, <2>1
<1>6. CASE ~(x[i] < HalfWord)
  <2>1. i # Len(x) BY <1>1, <1>6 DEF VarSize
  <2>2. i + 1 \in 1 .. Len(x) BY <1>2, <2>1
  <2>3. x[i + 1] \in 0 .. 15 BY <2>2 DEF WordMod
  <2>4. l = [val |-> (x[i] % HalfWord) * WordMod + (x[i + 1] % WordMod), wide |-> TRUE, next |-> i + 2]
    BY <1>1, <1>6, <2>1, Zenon DEF VarSize
  <2>5. x[i] % 8 = x[i] - 8 /\ x[i + 1] % 16 = x[i + 1] BY <1>3, <1>4, <1>6, <2>3
  <2>6. l.val = (x[i] - 8) * 16 + x[i + 1] BY <1>4, <2>4, <2>5
  <2>7. l.val \div 16 = x[i] - 8 /\ l.val % 16 = x[i + 1] /\ (x[i] - 8) % 8 = x[i] - 8
    <3>1. \A a \in 0 .. 7, b \in 0 .. 15 : (a * 16 + b) \div 16 = a /\ (a * 16 + b) % 16 = b /\ a % 8 = a
      OBVIOUS
    <3>2. x[i] - 8 \in 0 .. 7 BY <1>3, <1>4, <1>6
    <3> QED BY <2>3, <2>6, <3>1, <3>2
  <2>8. WriteWide(l.val) = << x[i], x[i + 1] >>
    <3>1. HalfWord + ((l.val \div WordMod) % HalfWord) = x[i]
      <4>1. (l.val \div WordMod) % HalfWord = x[i] - 8 BY <1>4, <2>7
      <4> QED BY <1>3, <1>4, <4>1
    <3>2. l.val % WordMod = x[i + 1] BY <1>4, <2>7
    <3> QED BY <3>1, <3>2 DEF WriteWide
  <2>9. l.val \in Nat
    <3>1. x[i] - 8 \in 0 .. 7 BY <1>3, <1>4, <1>6
    <3>2. \A a \in 0 .. 7, b \in 0 .. 15 : a * 16 + b \in Nat OBVIOUS
    <3> QED BY <2>3, <2>6, <3>1, <3>2
  <2> QED BY <1>2, <1>3, <1>4, <1>6, <2>2, <2>4, <2>8, <2>9
<1> QED BY <1>5, <1>6

\* The same cells cut out twice.
LEMMA CutTwice ==
  ASSUME NEW p \in Seq(Nat), NEW n \in 0 .. Len(p), NEW m \in 1 .. n + 1
  PROVE  /\ SubSeq(p, m, n) \in Seq(Nat)
         /\ Len(SubSeq(p, m, n)) = n - m + 1
         /\ \A k \in 1 .. n - m + 1 : SubSeq(p, m, n)[k] = p[m + k - 1]
         /\ SubSeq(SubSeq(p, 1, n), m, n) = SubSeq(p, m, n)
<1> DEFINE a == SubSeq(p, 1, n)
           b == SubSeq(p, m, n)
           c == SubSeq(a, m, n)
<1>0. n \in Int /\ m \in Int OBVIOUS
<1>1. \A i \in 1 .. n : p[i] \in Nat OBVIOUS
<1>2. a \in Seq(Nat) /\ Len(a) = n /\ \A i \in 1 .. n : a[i] = p[i]
  <2>1. 1 \in Int OBVIOUS
  <2> QED BY <1>0, <1>1, <2>1
<1>3. \A i \in m .. n : p[i] \in Nat BY <1>1
<1>4. /\ b \in Seq(Nat) /\ Len(b) = IF m <= n THEN n - m + 1 ELSE 0
      /\ \A i \in 1 .. n - m + 1 : b[i] = p[m + i - 1]
  BY <1>0, <1>3, SubSeqProperties
<1> HIDE DEF a
<1>5. \A i \in m .. n : a[i] \in Nat BY <1>1, <1>2
<1>6. /\ c \in Seq(Nat) /\ Len(c) = IF m <= n THEN n - m + 1 ELSE 0
      /\ \A i \in 1 .. n - m + 1 : c[i] = a[m + i - 1]
  BY <1>0, <1>5, SubSeqProperties
<1>7. Len(b) = n - m + 1 BY <1>4
<1> HIDE DEF b, c
<1>8. \A i \in 1 .. Len(c) : c[i] = b[i]
  <2> TAKE i \in 1 .. Len(c)
  <2>1. i \in 1 .. n - m + 1 /\ m + i - 1 \in 1 .. n BY <1>4, <1>6, <1>7
  <2> QED BY <1>2, <1>4, <1>6, <2>1
<1>9. c = b BY <1>4, <1>6, <1>8, SeqEqual
<1> QED BY <1>4, <1>7, <1>9 DEF a, b, c

\* Cells cut off as a string with its length.
LEMMA CutIs ==
  ASSUME NEW p \in Seq(Nat), NEW n \in 0 .. Len(p), NEW m \in 1 .. n, p[m] = n - m
  PROVE  p = SubSeq(p, 1, m - 1) \o WriteString(SubSeq(p, m + 1, n)) \o SubSeq(p, n + 1, Len(p))
<1>1. m \in 1 .. Len(p) /\ n \in m .. Len(p) OBVIOUS
<1>2. SubSeq(p, m, n) = << p[m] >> \o SubSeq(p, m + 1, n) BY <1>1, SubSeqRecursiveFirst
<1>3. Len(SubSeq(p, m + 1, n)) = n - m
  <2>1. m + 1 \in 1 .. n + 1 OBVIOUS
  <2>2. Len(SubSeq(p, m + 1, n)) = n - (m + 1) + 1 BY <2>1, CutTwice
  <2> QED BY <2>2
<1>4. SubSeq(p, m, n) = WriteString(SubSeq(p, m + 1, n)) BY <1>2, <1>3 DEF WriteString
<1>5. SubSeq(p, 1, m - 1) \o SubSeq(p, m, n) = SubSeq(p, 1, n)
  <2>1. 1 \in 1 .. Len(p) + 1 /\ m - 1 \in 1 - 1 .. Len(p) /\ n \in m - 1 .. Len(p) OBVIOUS
  <2>2. (m - 1) + 1 = m OBVIOUS
  <2>3. SubSeq(p, 1, m - 1) \o SubSeq(p, (m - 1) + 1, n) = SubSeq(p, 1, n)
    BY <2>1, ConcatAdjacentSubSeq
  <2> QED BY <2>2, <2>3
<1>6. SubSeq(p, 1, n) \o SubSeq(p, n + 1, Len(p)) = p
  <2>1. 1 \in 1 .. Len(p) + 1 /\ n \in 1 - 1 .. Len(p) /\ Len(p) \in n .. Len(p) OBVIOUS
  <2>2. SubSeq(p, 1, n) \o SubSeq(p, n + 1, Len(p)) = SubSeq(p, 1, Len(p))
    BY <2>1, ConcatAdjacentSubSeq
  <2> QED BY <2>2, SubSeqFull
<1> QED BY <1>4, <1>5, <1>6

LEMMA SplitIs ==
  ASSUME NEW body \in Seq(Nat)
  PROVE  LET s == SplitTrailingLabel(body) IN
         \/ body = s.inner /\ s.label = << >>
         \/ \E pad \in 0 .. 1 : body = s.inner \o WriteString(s.label) \o Zeros(pad)
<1> DEFINE padded == body # << >> /\ Last(body) = 0
           stripped == IF padded THEN Front(body) ELSE body
           starts == {i \in DOMAIN stripped :
                        /\ i + stripped[i] = Len(stripped)
                        /\ \A k \in (i + 1)..Len(stripped) : stripped[k] >= FirstPrintable}
           m == Min(starts)
           s == SplitTrailingLabel(body)
<1>1. s = IF starts = {} THEN [label |-> << >>, inner |-> body]
          ELSE [label |-> Rest(stripped, m), inner |-> Prefix(body, m - 1)]
  BY DEF SplitTrailingLabel
<1>2. \E pad \in 0 .. 1 : \E n \in 0 .. Len(body) :
        n = Len(body) - pad /\ stripped = SubSeq(body, 1, n) /\ Zeros(pad) = SubSeq(body, n + 1, Len(body))
  <2>1. CASE ~padded
    <3>1. stripped = SubSeq(body, 1, Len(body)) BY <2>1, SubSeqFull
    <3> HIDE DEF stripped
    <3>2. SubSeq(body, Len(body) + 1, Len(body)) = << >> OBVIOUS
    <3>3. Zeros(0) = << >> BY DEF Zeros
    <3>4. 0 \in 0 .. 1 /\ Len(body) \in 0 .. Len(body) /\ Len(body) = Len(body) - 0 OBVIOUS
    <3> QED BY <3>1, <3>2, <3>3, <3>4
  <2>2. CASE padded
    <3>1. stripped = SubSeq(body, 1, Len(body) - 1) /\ body # << >> /\ body[Len(body)] = 0
      BY <2>2 DEF Front, Last
    <3> HIDE DEF stripped, padded
    <3>2. Len(body) \in Nat \ {0} BY <3>1, EmptySeq
    <3>3. SubSeq(body, Len(body), Len(body)) = << 0 >>
      <4>1. Len(body) \in 1 .. Len(body) /\ Len(body) \in Len(body) .. Len(body) BY <3>2
      <4>2. SubSeq(body, Len(body), Len(body)) = << body[Len(body)] >> \o SubSeq(body, Len(body) + 1, Len(body))
        BY <4>1, SubSeqRecursiveFirst
      <4>3. SubSeq(body, Len(body) + 1, Len(body)) = << >> OBVIOUS
      <4>4. << 0 >> \o << >> = << 0 >> OBVIOUS
      <4> QED BY <3>1, <4>2, <4>3, <4>4
    <3>4. Zeros(1) = << 0 >> BY DEF Zeros
    <3>5. 1 \in 0 .. 1 /\ Len(body) - 1 \in 0 .. Len(body) /\ (Len(body) - 1) + 1 = Len(body) BY <3>2
    <3> QED BY <3>1, <3>3, <3>4, <3>5
  <2> QED BY <2>1, <2>2
<1>3. CASE starts = {}
  <2>1. s = [label |-> << >>, inner |-> body] BY <1>1, <1>3
  <2> QED BY <2>1
<1>4. CASE starts # {}
  <2>1. PICK pad \in 0 .. 1, n \in 0 .. Len(body) :
          n = Len(body) - pad /\ stripped = SubSeq(body, 1, n) /\ Zeros(pad) = SubSeq(body, n + 1, Len(body))
    BY <1>2
  <2> HIDE DEF stripped, padded
  <2>2. stripped \in Seq(Nat) /\ Len(stripped) = n /\ \A k \in 1 .. n : stripped[k] = body[k]
    <3>1. 1 \in 1 .. n + 1 OBVIOUS
    <3>2. Len(SubSeq(body, 1, n)) = n - 1 + 1 /\ SubSeq(body, 1, n) \in Seq(Nat)
          /\ \A k \in 1 .. n - 1 + 1 : SubSeq(body, 1, n)[k] = body[1 + k - 1]
      BY <3>1, CutTwice
    <3> QED BY <2>1, <3>2
  <2>3. m \in starts
    <3>1. starts \in SUBSET Nat BY <2>2
    <3> HIDE DEF starts
    <3>2. PICK j : IsFirst(starts, j) BY <1>4, <3>1, LeastNumber
    <3> QED BY <3>2 DEF Min, IsFirst
  <2>4. m \in 1 .. n /\ body[m] = n - m
    <3>1. m \in DOMAIN stripped /\ m + stripped[m] = Len(stripped) BY <2>3
    <3> HIDE DEF m
    <3>2. m \in 1 .. n BY <2>2, <3>1
    <3>3. stripped[m] = body[m] /\ body[m] \in Nat BY <2>2, <3>2
    <3> QED BY <2>2, <3>1, <3>2, <3>3
  <2>5. s.label = Rest(stripped, m) /\ s.inner = Prefix(body, m - 1) BY <1>1, <1>4
  <2> HIDE DEF m, starts, s
  <2>6. s.label = SubSeq(body, m + 1, n)
    <3>1. m + 1 \in 1 .. n + 1 BY <2>4
    <3>2. SubSeq(SubSeq(body, 1, n), m + 1, n) = SubSeq(body, m + 1, n) BY <3>1, CutTwice
    <3> QED BY <2>1, <2>2, <2>5, <3>2 DEF Rest
  <2>7. body = SubSeq(body, 1, m - 1) \o WriteString(SubSeq(body, m + 1, n)) \o SubSeq(body, n + 1, Len(body))
    BY <2>4, CutIs
  <2>8. body = s.inner \o WriteString(s.label) \o Zeros(pad) BY <2>1, <2>5, <2>6, <2>7 DEF Prefix
  <2> QED BY <2>8 DEF s
<1> QED BY <1>3, <1>4

LEMMA FewCells ==
  ASSUME NEW x \in Seq(Nat), NEW i \in 1 .. Len(x)
  PROVE  /\ i + 2 <= Len(x) => SubSeq(x, i, i + 2) = << x[i], x[i + 1], x[i + 2] >>
         /\ i + 3 <= Len(x) => SubSeq(x, i, i + 3) = << x[i], x[i + 1], x[i + 2], x[i + 3] >>
<1>1. ASSUME i + 2 <= Len(x) PROVE SubSeq(x, i, i + 2) = << x[i], x[i + 1], x[i + 2] >>
  <2> DEFINE a == SubSeq(x, i, i + 2)
             b == << x[i], x[i + 1], x[i + 2] >>
  <2>0. i + 2 \in 0 .. Len(x) /\ i \in 1 .. (i + 2) + 1 BY <1>1
  <2>1. a \in Seq(Nat) /\ Len(a) = (i + 2) - i + 1 /\ \A k \in 1 .. (i + 2) - i + 1 : a[k] = x[i + k - 1]
    BY <2>0, CutTwice
  <2> HIDE DEF a
  <2>2. Len(a) = 3 /\ a[1] = x[i] /\ a[2] = x[i + 1] /\ a[3] = x[i + 2] BY <2>1
  <2>3. x[i] \in Nat /\ x[i + 1] \in Nat /\ x[i + 2] \in Nat BY <1>1
  <2>4. b \in Seq(Nat) /\ Len(b) = 3 /\ b[1] = x[i] /\ b[2] = x[i + 1] /\ b[3] = x[i + 2]
    BY <2>3
  <2> HIDE DEF b
  <2>5. \A k \in 1 .. Len(a) : k = 1 \/ k = 2 \/ k = 3 BY <2>2
  <2>6. a = b BY <2>1, <2>2, <2>4, <2>5, SeqEqual
  <2> QED BY <2>6 DEF a, b
<1>2. ASSUME i + 3 <= Len(x) PROVE SubSeq(x, i, i + 3) = << x[i], x[i + 1], x[i + 2], x[i + 3] >>
  <2> DEFINE a == SubSeq(x, i, i + 3)
             b == << x[i], x[i + 1], x[i + 2], x[i + 3] >>
  <2>0. i + 3 \in 0 .. Len(x) /\ i \in 1 .. (i + 3) + 1 BY <1>2
  <2>1. a \in Seq(Nat) /\ Len(a) = (i + 3) - i + 1 /\ \A k \in 1 .. (i + 3) - i + 1 : a[k] = x[i + k - 1]
    BY <2>0, CutTwice
  <2> HIDE DEF a
  <2>2. Len(a) = 4 /\ a[1] = x[i] /\ a[2] = x[i + 1] /\ a[3] = x[i + 2] /\ a[4] = x[i + 3] BY <2>1
  <2>3. x[i] \in Nat /\ x[i + 1] \in Nat /\ x[i + 2] \in Nat /\ x[i + 3] \in Nat BY <1>2
  <2>4. b \in Seq(Nat) /\ Len(b) = 4 /\ b[1] = x[i] /\ b[2] = x[i + 1] /\ b[3] = x[i + 2] /\ b[4] = x[i + 3]
    BY <2>3
  <2> HIDE DEF b
  <2>5. \A k \in 1 .. Len(a) : k = 1 \/ k = 2 \/ k = 3 \/ k = 4 BY <2>2
  <2>6. a = b BY <2>1, <2>2, <2>4, <2>5, SeqEqual
  <2> QED BY <2>6 DEF a, b
<1> QED BY <1>1, <1>2

LEMMA JoinThree ==
  ASSUME NEW a, NEW b, NEW c
  PROVE  << a >> \o << b, c >> = << a, b, c >>
<1> DEFINE S == {a, b, c}
           s == << a >>
           t == << b, c >>
           u == << a, b, c >>
<1>1. s \in Seq(S) /\ t \in Seq(S) /\ u \in Seq(S) OBVIOUS
<1>2. Len(s) = 1 /\ Len(t) = 2 /\ Len(u) = 3 /\ s[1] = a /\ t[1] = b /\ t[2] = c
      /\ u[1] = a /\ u[2] = b /\ u[3] = c
  OBVIOUS
<1> HIDE DEF S, s, t, u
<1>3. /\ s \o t \in Seq(S) /\ Len(s \o t) = 3
      /\ (s \o t)[1] = a /\ (s \o t)[2] = b /\ (s \o t)[3] = c
  <2> DEFINE w == s \o t
  <2>0. /\ w \in Seq(S) /\ Len(w) = Len(s) + Len(t)
        /\ \A i \in 1 .. Len(s) + Len(t) : w[i] = IF i <= Len(s) THEN s[i] ELSE t[i - Len(s)]
    BY <1>1, ConcatProperties
  <2>1. /\ w \in Seq(S) /\ Len(w) = 1 + 2
        /\ \A i \in 1 .. 1 + 2 : w[i] = IF i <= 1 THEN s[i] ELSE t[i - 1]
    BY <1>2, <2>0
  <2> HIDE DEF w
  <2>2. w[1] = s[1] /\ w[2] = t[1] /\ w[3] = t[2] BY <2>1
  <2> QED BY <1>2, <2>1, <2>2 DEF w
<1>4. s \o t = u
  <2>1. \A i \in 1 .. Len(s \o t) : i = 1 \/ i = 2 \/ i = 3 BY <1>3
  <2> QED BY <1>1, <1>2, <1>3, <2>1, SeqEqual
<1> QED BY <1>4 DEF s, t, u

LEMMA JoinFour ==
  ASSUME NEW a, NEW b, NEW c, NEW d
  PROVE  << a, b >> \o << c, d >> = << a, b, c, d >>
<1> DEFINE S == {a, b, c, d}
           s == << a, b >>
           t == << c, d >>
           u == << a, b, c, d >>
<1>1. s \in Seq(S) /\ t \in Seq(S) /\ u \in Seq(S) OBVIOUS
<1>2. Len(s) = 2 /\ Len(t) = 2 /\ Len(u) = 4 /\ s[1] = a /\ s[2] = b /\ t[1] = c /\ t[2] = d
      /\ u[1] = a /\ u[2] = b /\ u[3] = c /\ u[4] = d
  OBVIOUS
<1> HIDE DEF S, s, t, u
<1>3. /\ s \o t \in Seq(S) /\ Len(s \o t) = 4
      /\ (s \o t)[1] = a /\ (s \o t)[2] = b /\ (s \o t)[3] = c /\ (s \o t)[4] = d
  <2> DEFINE w == s \o t
  <2>0. /\ w \in Seq(S) /\ Len(w) = Len(s) + Len(t)
        /\ \A i \in 1 .. Len(s) + Len(t) : w[i] = IF i <= Len(s) THEN s[i] ELSE t[i - Len(s)]
    BY <1>1, ConcatProperties
  <2>1. /\ w \in Seq(S) /\ Len(w) = 2 + 2
        /\ \A i \in 1 .. 2 + 2 : w[i] = IF i <= 2 THEN s[i] ELSE t[i - 2]
    BY <1>2, <2>0
  <2> HIDE DEF w
  <2>2. w[1] = s[1] /\ w[2] = s[2] /\ w[3] = t[1] /\ w[4] = t[2] BY <2>1
  <2> QED BY <1>2, <2>1, <2>2 DEF w
<1>4. s \o t = u
  <2>1. \A i \in 1 .. Len(s \o t) : i = 1 \/ i = 2 \/ i = 3 \/ i = 4 BY <1>3
  <2> QED BY <1>1, <1>2, <1>3, <2>1, SeqEqual
<1> QED BY <1>4 DEF s, t, u

\* That record d stands in x behind the first start cells.
Stands(x, d, start) ==
  LET wide == x[start + 1] >= HalfWord
      head == (IF wide THEN WriteWide(d.length) ELSE << d.length >>) \o << d.flags, d.type >>
      body == SubSeq(x, start + Len(head) + 1, start + d.length)
  IN /\ head = SubSeq(x, start + 1, start + Len(head))
     /\ \/ body = d.inner /\ d.label = << >>
        \/ /\ HasLabel(d.flags)
           /\ \E pad \in 0..1 : body = d.inner \o WriteString(d.label) \o Zeros(pad)

LEMMA RecordIs ==
  ASSUME NEW x \in Seq(0 .. WordMod - 1), NEW i \in Nat \ {0}, NEW q \in Record(x, i)
  PROVE  /\ q.panic \in BOOLEAN
         /\ q.panic => i \in 1 .. Len(x) /\ \E l \in VarSize(x, i) : l.val <= RecordHead
         /\ ~q.panic => /\ q.desc.length \in Nat
                        /\ q.next = i + q.desc.length
                        /\ Stands(x, q.desc, i - 1)
<1> DEFINE Flags(l) == x[l.next]
           End(l) == i - 1 + l.val
           Body(l) == SubSeq(x, l.next + 2, End(l))
           Split(l) == IF HasLabel(Flags(l)) THEN SplitTrailingLabel(Body(l))
                       ELSE [label |-> << >>, inner |-> Body(l)]
           Desc(l) == [type |-> x[l.next + 1], flags |-> Flags(l), length |-> l.val,
                       label |-> Split(l).label, inner |-> Split(l).inner]
<1>1. PICK l \in VarSize(x, i) :
        /\ ~(l.next + 1 > Len(x)) /\ ~(End(l) > Len(x))
        /\ IF End(l) < l.next + 1 THEN q = [panic |-> TRUE]
           ELSE q = [panic |-> FALSE, next |-> End(l) + 1, desc |-> Desc(l)]
  BY DEF Record
<1>2. /\ i \in 1 .. Len(x) /\ l.val \in Nat
      /\ \/ l.next = i + 1 /\ x[i] < HalfWord /\ l.val = x[i]
         \/ l.next = i + 2 /\ x[i] >= HalfWord /\ i + 1 \in 1 .. Len(x)
            /\ WriteWide(l.val) = << x[i], x[i + 1] >>
  BY VarSizeIs
<1>3. x \in Seq(Nat)
  <2>1. 0 .. WordMod - 1 \subseteq Nat BY DEF WordMod
  <2> QED BY <2>1, SeqMonotonic
<1>4. CASE End(l) < l.next + 1
  <2>1. q = [panic |-> TRUE] BY <1>1, <1>4
  <2>2. l.val <= 3 BY <1>2, <1>4
  <2> QED BY <1>2, <2>1, <2>2 DEF RecordHead
<1>5. CASE ~(End(l) < l.next + 1)
  <2>1. q = [panic |-> FALSE, next |-> End(l) + 1, desc |-> Desc(l)] BY <1>1, <1>5
  <2>2. Body(l) \in Seq(Nat)
    <3>1. End(l) \in 0 .. Len(x) /\ l.next + 2 \in 1 .. End(l) + 1
      <4>1. End(l) \in Int /\ l.next \in Nat BY <1>2
      <4> HIDE DEF End
      <4> QED BY <1>1, <1>5, <4>1
    <3> HIDE DEF End
    <3>2. SubSeq(x, l.next + 2, End(l)) \in Seq(Nat) BY <1>3, <3>1, CutTwice
    <3> QED BY <3>2
  <2> DEFINE d == Desc(l)
  <2>3. \/ Body(l) = Split(l).inner /\ Split(l).label = << >>
        \/ /\ HasLabel(Flags(l))
           /\ \E pad \in 0..1 : Body(l) = Split(l).inner \o WriteString(Split(l).label) \o Zeros(pad)
    <3> HIDE DEF Body
    <3>1. CASE HasLabel(Flags(l)) BY <2>2, <3>1, SplitIs
    <3>2. CASE ~HasLabel(Flags(l)) BY <3>2
    <3> QED BY <3>1, <3>2
  <2>4. d.length = l.val /\ d.flags = Flags(l) /\ d.type = x[l.next + 1] /\ d.inner = Split(l).inner
        /\ d.label = Split(l).label
    OBVIOUS
  <2>5. q.panic = FALSE /\ q.next = i + l.val /\ q.desc = d BY <1>2, <2>1
  <2> HIDE DEF d, Split, Desc
  <2>6. Stands(x, d, i - 1)
    <3> DEFINE head == (IF x[(i - 1) + 1] >= HalfWord THEN WriteWide(d.length) ELSE << d.length >>)
                       \o << d.flags, d.type >>
    <3>1. (i - 1) + 1 = i BY <1>2
    <3>2. /\ head = SubSeq(x, (i - 1) + 1, (i - 1) + Len(head))
          /\ SubSeq(x, (i - 1) + Len(head) + 1, (i - 1) + d.length) = Body(l)
      <4>1. CASE l.next = i + 1 /\ x[i] < HalfWord /\ l.val = x[i]
        <5>1. head = << x[i], x[i + 1], x[i + 2] >>
          <6>1. ~(x[i] >= HalfWord)
            <7>1. x[i] \in 0 .. 15 /\ HalfWord = 8 BY <1>2 DEF WordMod, HalfWord
            <7> QED BY <4>1, <7>1
          <6>2. head = << d.length >> \o << d.flags, d.type >> BY <3>1, <6>1
          <6>3. (i + 1) + 1 = i + 2 BY <1>2
          <6>4. d.length = x[i] /\ d.flags = x[i + 1] /\ d.type = x[i + 2] BY <2>4, <4>1, <6>3
          <6> QED BY <6>2, <6>4, JoinThree
        <5>2. Len(head) = 3 BY <5>1
        <5> HIDE DEF head
        <5>3. (i - 1) + 3 = i + 2 /\ (i - 1) + 3 + 1 = l.next + 2 /\ i + 2 <= Len(x) BY <1>1, <1>2, <4>1
        <5>4. head = SubSeq(x, i, i + 2) BY <1>2, <1>3, <5>1, <5>3, FewCells
        <5> QED BY <2>4, <3>1, <5>2, <5>3, <5>4
      <4>2. CASE l.next = i + 2 /\ x[i] >= HalfWord /\ WriteWide(l.val) = << x[i], x[i + 1] >>
        <5>1. head = << x[i], x[i + 1], x[i + 2], x[i + 3] >>
          <6>2. head = << x[i], x[i + 1] >> \o << d.flags, d.type >> BY <2>4, <3>1, <4>2
          <6>3. (i + 2) + 1 = i + 3 BY <1>2
          <6>4. d.flags = x[i + 2] /\ d.type = x[i + 3] BY <2>4, <4>2, <6>3
          <6>5. head = << x[i], x[i + 1] >> \o << x[i + 2], x[i + 3] >> BY <6>2, <6>4, Zenon
          <6>6. << x[i], x[i + 1] >> \o << x[i + 2], x[i + 3] >> = << x[i], x[i + 1], x[i + 2], x[i + 3] >>
            BY JoinFour, Zenon
          <6> QED BY <6>5, <6>6, Zenon
        <5>2. Len(head) = 4 BY <5>1
        <5> HIDE DEF head
        <5>3. (i - 1) + 4 = i + 3 /\ (i - 1) + 4 + 1 = l.next + 2 /\ i + 3 <= Len(x) BY <1>1, <1>2, <4>2
        <5>4. head = SubSeq(x, i, i + 3) BY <1>2, <1>3, <5>1, <5>3, FewCells
        <5> QED BY <2>4, <3>1, <5>2, <5>3, <5>4
      <4> QED BY <1>2, <4>1, <4>2
    <3> HIDE DEF Body, Flags
    <3> QED BY <2>3, <2>4, <3>2 DEF Stands
  <2> QED BY <1>2, <2>4, <2>5, <2>6
<1> QED BY <1>4, <1>5

AnyDesc(x) == UNION {{q.desc : q \in {p \in Record(x, i) : ~p.panic}} : i \in Nat \ {0}}

LEMMA DescLengths ==
  ASSUME NEW x \in Seq(0 .. WordMod - 1), NEW d \in AnyDesc(x)
  PROVE  d.length \in Nat
<1>1. PICK i \in Nat \ {0} : \E q \in Record(x, i) : ~q.panic /\ d = q.desc BY DEF AnyDesc
<1> QED BY <1>1, RecordIs

\* The records follow each other from cell i on.
Tiles(x, descs, i) ==
  \E pos \in [1 .. Len(descs) + 1 -> Nat \ {0}] :
    /\ pos[1] = i
    /\ \A k \in 1 .. Len(descs) : /\ pos[k + 1] = pos[k] + descs[k].length
                                  /\ Stands(x, descs[k], pos[k] - 1)

\* What is too short for its head.
HasShort(x) == \E i \in DOMAIN x : \E l \in VarSize(x, i) : l.val <= RecordHead

Listed(x, i, r) ==
  /\ r = [panic |-> r.panic, descs |-> r.descs, next |-> r.next]
  /\ r.panic \in BOOLEAN
  /\ r.panic => HasShort(x)
  /\ ~r.panic => r.descs \in Seq(AnyDesc(x)) /\ Tiles(x, r.descs, i)

LEMMA TilesNext ==
  ASSUME NEW x, NEW i \in Nat \ {0}, NEW d \in AnyDesc(x), NEW descs \in Seq(AnyDesc(x)),
         d.length \in Nat, Stands(x, d, i - 1), Tiles(x, descs, i + d.length)
  PROVE  << d >> \o descs \in Seq(AnyDesc(x)) /\ Tiles(x, << d >> \o descs, i)
<1>1. PICK p \in [1 .. Len(descs) + 1 -> Nat \ {0}] :
        /\ p[1] = i + d.length
        /\ \A k \in 1 .. Len(descs) : /\ p[k + 1] = p[k] + descs[k].length
                                      /\ Stands(x, descs[k], p[k] - 1)
  BY DEF Tiles
<1> DEFINE all == << d >> \o descs
           pos == [k \in 1 .. Len(all) + 1 |-> IF k = 1 THEN i ELSE p[k - 1]]
<1>2. /\ all \in Seq(AnyDesc(x)) /\ Len(all) = Len(descs) + 1 /\ all[1] = d
      /\ \A k \in 2 .. Len(all) : all[k] = descs[k - 1]
  OBVIOUS
<1> HIDE DEF all
<1>3. \A k \in 1 .. Len(all) + 1 : pos[k] = IF k = 1 THEN i ELSE p[k - 1] OBVIOUS
<1>4. \A k \in 2 .. Len(all) + 1 : k - 1 \in 1 .. Len(descs) + 1 BY <1>2
<1>5. pos \in [1 .. Len(all) + 1 -> Nat \ {0}] BY <1>1, <1>4
<1> HIDE DEF pos
<1>6. ASSUME NEW k \in 1 .. Len(all)
      PROVE  pos[k + 1] = pos[k] + all[k].length /\ Stands(x, all[k], pos[k] - 1)
  <2>1. CASE k = 1
    <3>1. pos[1] = i /\ pos[1 + 1] = p[1] BY <1>2, <1>3, <2>1
    <3> QED BY <1>1, <1>2, <2>1, <3>1
  <2>2. CASE k # 1
    <3>1. k - 1 \in 1 .. Len(descs) /\ (k - 1) + 1 = k /\ (k + 1) - 1 = k BY <1>2, <2>2
    <3>2. pos[k] = p[k - 1] BY <1>3, <2>2
    <3>3. all[k] = descs[k - 1] BY <1>2, <2>2
    <3>4. pos[k + 1] = p[k]
      <4>1. k + 1 \in 1 .. Len(all) + 1 /\ k + 1 # 1 BY <1>2, <2>2
      <4> QED BY <1>3, <3>1, <4>1
    <3> QED BY <1>1, <3>1, <3>2, <3>3, <3>4
  <2> QED BY <2>1, <2>2
<1>7. pos[1] = i BY <1>2, <1>3
<1> QED BY <1>2, <1>5, <1>6, <1>7 DEF Tiles, all

Later(q, s) == IF s.panic THEN Panicked ELSE [s EXCEPT !.descs = << q.desc >> \o @]

LEMMA RecordsListed ==
  ASSUME NEW x \in Seq(0 .. WordMod - 1), NEW n \in Nat, NEW i \in Nat \ {0}, NEW r \in Records(x, i, n)
  PROVE  Listed(x, i, r)
<1> DEFINE f == RecordsFrom(x, n)
           S == {k \in 0 .. n : \A j \in Nat \ {0} : \A s \in f[k][j] : Listed(x, j, s)}
<1>1. ASSUME NEW k \in 0 .. n, \A m \in 0 .. k - 1 : m \in S PROVE k \in S
  <2> SUFFICES ASSUME NEW j \in Nat \ {0}, NEW s \in f[k][j] PROVE Listed(x, j, s)
    OBVIOUS
  <2>1. f[k] = RecordsAt(f, x, k) BY RecordsExist
  <2> HIDE DEF f
  <2>2. CASE k = 0
    <3>1. s = [panic |-> FALSE, descs |-> << >>, next |-> j] BY <2>1, <2>2 DEF RecordsAt
    <3>2. Tiles(x, << >>, j)
      <4> DEFINE pos == [k1 \in 1 .. Len(<< >>) + 1 |-> j]
      <4>1. pos \in [1 .. Len(<< >>) + 1 -> Nat \ {0}] /\ pos[1] = j OBVIOUS
      <4>2. \A m \in 1 .. Len(<< >>) : FALSE OBVIOUS
      <4> QED BY <4>1, <4>2 DEF Tiles
    <3>3. << >> \in Seq(AnyDesc(x)) OBVIOUS
    <3> QED BY <3>1, <3>2, <3>3 DEF Listed
  <2>3. CASE k # 0
    <3> DEFINE From(q) == IF q.panic THEN {Panicked} ELSE {Later(q, t) : t \in f[k - 1][q.next]}
    <3>0. RecordsAt(f, x, k)[j] = UNION {From(q) : q \in Record(x, j)} BY <2>3 DEF RecordsAt, Later
    <3>00. \A q : (q.panic => From(q) = {Panicked})
                  /\ (~q.panic => From(q) = {Later(q, t) : t \in f[k - 1][q.next]})
      OBVIOUS
    <3> HIDE DEF From
    <3>1. PICK q \in Record(x, j) : s \in From(q) BY <2>1, <3>0
    <3>2. /\ q.panic \in BOOLEAN
          /\ q.panic => j \in 1 .. Len(x) /\ \E l \in VarSize(x, j) : l.val <= RecordHead
          /\ ~q.panic => /\ q.desc.length \in Nat
                         /\ q.next = j + q.desc.length
                         /\ Stands(x, q.desc, j - 1)
      BY RecordIs
    <3>3. Panicked = [panic |-> TRUE, descs |-> << >>, next |-> 0] BY DEF Panicked
    <3>4. CASE q.panic
      <4>1. s = Panicked BY <3>00, <3>1, <3>4
      <4>2. HasShort(x) BY <3>2, <3>4 DEF HasShort
      <4> QED BY <3>3, <4>1, <4>2 DEF Listed
    <3>5. CASE ~q.panic
      <4>0. s \in {Later(q, t) : t \in f[k - 1][q.next]} BY <3>00, <3>1, <3>5
      <4>1. PICK t \in f[k - 1][q.next] : s = Later(q, t) BY <4>0
      <4>2. k - 1 \in S /\ q.next \in Nat \ {0} BY <1>1, <2>3, <3>2, <3>5
      <4>3. Listed(x, q.next, t) BY <4>1, <4>2
      <4>4. CASE t.panic
        <5>1. s = Panicked BY <4>1, <4>4 DEF Later
        <5> QED BY <3>3, <4>3, <4>4, <5>1 DEF Listed
      <4>5. CASE ~t.panic
        <5>1. s = [t EXCEPT !.descs = << q.desc >> \o @] BY <4>1, <4>5 DEF Later
        <5>2. t = [panic |-> t.panic, descs |-> t.descs, next |-> t.next] BY <4>3 DEF Listed
        <5>3. s.panic = t.panic /\ s.next = t.next /\ s.descs = << q.desc >> \o t.descs
              /\ s = [panic |-> s.panic, descs |-> s.descs, next |-> s.next]
          BY <5>1, <5>2
        <5>4. q.desc \in AnyDesc(x) BY <3>5 DEF AnyDesc
        <5>5. t.descs \in Seq(AnyDesc(x)) /\ Tiles(x, t.descs, j + q.desc.length)
          BY <3>2, <3>5, <4>3, <4>5 DEF Listed
        <5>6. << q.desc >> \o t.descs \in Seq(AnyDesc(x)) /\ Tiles(x, << q.desc >> \o t.descs, j)
          BY <3>2, <3>5, <5>4, <5>5, TilesNext
        <5> QED BY <4>5, <5>3, <5>6, <4>3 DEF Listed
      <4> QED BY <4>4, <4>5
    <3> QED BY <3>2, <3>4, <3>5
  <2> QED BY <2>2, <2>3
<1>2. n \in S
  <2> HIDE DEF S
  <2>1. n \in 0 .. n OBVIOUS
  <2> QED BY <1>1, <2>1, FromBelow
<1>3. r \in f[n][i] BY RecordsFound
<1> HIDE DEF f
<1> QED BY <1>2, <1>3

LEMMA StartIs ==
  ASSUME NEW descs, Len(descs) \in Nat, NEW pos \in [1 .. Len(descs) + 1 -> Nat], pos[1] = 2,
         \A k \in 1 .. Len(descs) : pos[k + 1] = pos[k] + descs[k].length,
         NEW k \in 1 .. Len(descs), \A j \in 1 .. Len(descs) : descs[j].length \in Nat
  PROVE  RecordStart(descs, k) = pos[k] - 1
<1> DEFINE At(f, j) == IF j = 1 THEN 1 ELSE f[j - 1] + descs[j - 1].length
           before == CHOOSE f : f = [j \in 1 .. k |-> At(f, j)]
           g == [j \in 1 .. k |-> pos[j] - 1]
<1>1. RecordStart(descs, k) = before[k] BY DEF RecordStart
<1>2. ASSUME NEW j \in 1 .. k PROVE pos[j] - 1 = At(g, j)
  <2>1. CASE j = 1 BY <2>1
  <2>2. CASE j # 1
    <3>1. j - 1 \in 1 .. Len(descs) /\ j - 1 \in 1 .. k /\ (j - 1) + 1 = j BY <2>2
    <3>2. g[j - 1] = pos[j - 1] - 1 BY <3>1
    <3>3. pos[j] = pos[j - 1] + descs[j - 1].length /\ pos[j - 1] \in Nat /\ descs[j - 1].length \in Nat
      BY <3>1
    <3>4. At(g, j) = g[j - 1] + descs[j - 1].length BY <2>2
    <3> HIDE DEF g, At
    <3> QED BY <3>2, <3>3, <3>4
  <2> QED BY <2>1, <2>2
<1>3. g = [j \in 1 .. k |-> At(g, j)]
  <2> DEFINE h == [j \in 1 .. k |-> At(g, j)]
  <2>1. \A j \in 1 .. k : h[j] = At(g, j) OBVIOUS
  <2>2. \A j \in 1 .. k : g[j] = pos[j] - 1 OBVIOUS
  <2>3. g = [j \in 1 .. k |-> g[j]] /\ h = [j \in 1 .. k |-> h[j]] OBVIOUS
  <2> HIDE DEF g, h, At
  <2>4. \A j \in 1 .. k : g[j] = h[j] BY <1>2, <2>1, <2>2
  <2>5. g = h BY <2>3, <2>4
  <2> QED BY <2>5 DEF h
<1>4. before = [j \in 1 .. k |-> At(before, j)]
  <2> HIDE DEF g, At
  <2> QED BY <1>3
<1>5. \A j \in 1 .. k : before[j] = At(before, j)
  <2> HIDE DEF before, At
  <2> QED BY <1>4
<1> HIDE DEF before, g
<1> DEFINE S == {m \in 0 .. k : m = 0 \/ before[m] = pos[m] - 1}
<1>6. ASSUME NEW m \in 0 .. k, \A j \in 0 .. m - 1 : j \in S PROVE m \in S
  <2>1. CASE m = 0 BY <2>1
  <2>2. CASE m = 1 BY <1>5, <2>2
  <2>3. CASE m > 1
    <3>1. m - 1 \in 0 .. m - 1 /\ m - 1 \in 1 .. Len(descs) /\ (m - 1) + 1 = m BY <2>3
    <3>2. before[m - 1] = pos[m - 1] - 1 BY <1>6, <2>3, <3>1
    <3>3. before[m] = before[m - 1] + descs[m - 1].length BY <1>5, <2>3
    <3>4. pos[m] = pos[m - 1] + descs[m - 1].length /\ pos[m - 1] \in Nat /\ descs[m - 1].length \in Nat
      BY <3>1
    <3> QED BY <3>2, <3>3, <3>4
  <2> QED BY <2>1, <2>2, <2>3
<1>7. k \in S
  <2> HIDE DEF S
  <2>1. k \in 0 .. k /\ k \in Nat OBVIOUS
  <2> QED BY <1>6, <2>1, FromBelow
<1> QED BY <1>1, <1>7

\* What is listed of a list of types.
RecordsWhole(r) ==
  IF r.panic THEN \E i \in DOMAIN r.inflated : \E l \in VarSize(r.inflated, i) : l.val <= RecordHead
  ELSE \A k \in DOMAIN r.descs : Stands(r.inflated, r.descs[k], RecordStart(r.descs, k))

LEMMA ListsAreWhole == PayloadsInv => \A r \in TypeLists : RecordsWhole(r)
<1> SUFFICES ASSUME PayloadsInv, NEW r \in TypeLists PROVE RecordsWhole(r)
  OBVIOUS
<1> DEFINE List(x, q) == [inflated |-> x, panic |-> q.panic, descs |-> q.descs]
<1>1. family \in {"types", "records"} BY DEF TypeLists
<1>2. PICK n \in 0 .. 3 : \E q \in ParseInner(<< n >> \o payload) : r = List(<< n >> \o payload, q)
  BY DEF TypeLists
<1> DEFINE x == << n >> \o payload
<1>3. PICK q \in ParseInner(x) : r = List(x, q) BY <1>2
<1>4. payload \in Seq(0 .. WordMod - 1) /\ n \in 0 .. WordMod - 1
  BY <1>1 DEF PayloadsInv, CellsOf, WordMod
<1>5. x \in Seq(0 .. WordMod - 1) /\ x[1] = n /\ x # << >>
  <2>1. << n >> \in Seq(0 .. WordMod - 1) /\ Len(<< n >>) = 1 BY <1>4
  <2>2. x \in Seq(0 .. WordMod - 1) /\ Len(x) = 1 + Len(payload) /\ x[1] = n
    BY <1>4, <2>1, ConcatProperties
  <2> QED BY <1>4, <2>2, EmptySeq
<1> HIDE DEF x
<1> DEFINE Whole(p) == IF p.panic THEN {[panic |-> TRUE, descs |-> << >>, tops |-> << >>]}
                       ELSE {[panic |-> FALSE, descs |-> p.descs, tops |-> t] : t \in TopTypes(x, p.next)}
<1>6. PICK p \in Records(x, 2, n) : q \in Whole(p) BY <1>3, <1>5 DEF ParseInner
<1>7. Listed(x, 2, p)
  <2>1. 2 \in Nat \ {0} /\ n \in Nat OBVIOUS
  <2>2. \A i \in Nat \ {0} : \A m \in Nat : \A s \in Records(x, i, m) : Listed(x, i, s)
    BY <1>5, RecordsListed
  <2> QED BY <1>6, <2>1, <2>2, Zenon
<1>8. CASE p.panic
  <2>1. q.panic = TRUE BY <1>6, <1>8
  <2>2. r.panic = TRUE /\ r.inflated = x BY <1>3, <2>1
  <2>3. HasShort(x) BY <1>7, <1>8 DEF Listed
  <2> QED BY <2>2, <2>3 DEF RecordsWhole, HasShort
<1>9. CASE ~p.panic
  <2>1. q.panic = FALSE /\ q.descs = p.descs BY <1>6, <1>9
  <2>2. r.panic = FALSE /\ r.inflated = x /\ r.descs = p.descs BY <1>3, <2>1
  <2> DEFINE descs == p.descs
  <2>3. descs \in Seq(AnyDesc(x)) /\ Tiles(x, descs, 2) BY <1>7, <1>9 DEF Listed
  <2> HIDE DEF descs
  <2>4. PICK pos \in [1 .. Len(descs) + 1 -> Nat \ {0}] :
          /\ pos[1] = 2
          /\ \A k \in 1 .. Len(descs) : /\ pos[k + 1] = pos[k] + descs[k].length
                                        /\ Stands(x, descs[k], pos[k] - 1)
    BY <2>3 DEF Tiles
  <2>5. ASSUME NEW k \in 1 .. Len(descs) PROVE Stands(x, descs[k], RecordStart(descs, k))
    <3>1. Len(descs) \in Nat BY <2>3
    <3>2. \A j \in 1 .. Len(descs) : descs[j].length \in Nat
      <4> TAKE j \in 1 .. Len(descs)
      <4>1. descs[j] \in AnyDesc(x) BY <2>3
      <4> QED BY <4>1, <1>5, DescLengths
    <3>3. pos \in [1 .. Len(descs) + 1 -> Nat] BY <2>4
    <3>4. RecordStart(descs, k) = pos[k] - 1 BY <2>4, <3>1, <3>2, <3>3, StartIs
    <3> QED BY <2>4, <3>4
  <2>6. DOMAIN descs = 1 .. Len(descs) BY <2>3
  <2> QED BY <2>2, <2>5, <2>6 DEF RecordsWhole, descs
<1> QED BY <1>7, <1>8, <1>9 DEF Listed

-----------------------------------------------------------------------------
(***************************************************************************)
(* The entries of a heap: cells, and the forms of numbers in them.         *)
(***************************************************************************)

\* That the cells w stand in q from cell j on.
Has(q, j, w) == j + Len(w) <= Len(q) + 1 /\ \A k \in 1..Len(w) : q[j + k - 1] = w[k]

\* That w fits in p from cell i to the one before next, and stands there if it fills it up.
Fits(p, i, next, w) == i + Len(w) <= next /\ (i + Len(w) = next => Has(p, i, w))

\* Two runs of cells stand where the first one and then the second one do.
LEMMA HasJoin ==
  ASSUME NEW q \in Seq(Nat), NEW v \in Seq(Nat), NEW w \in Seq(Nat), NEW j \in Nat \ {0}
  PROVE  Has(q, j, v \o w) <=> Has(q, j, v) /\ Has(q, j + Len(v), w)
<1> DEFINE u == v \o w
           a == Len(v)
           b == Len(w)
           n == Len(q)
<1>1. /\ Len(u) = a + b
      /\ \A i \in 1 .. a + b : u[i] = IF i <= a THEN v[i] ELSE w[i - a]
  BY ConcatProperties
<1>2. a \in Nat /\ b \in Nat /\ n \in Nat OBVIOUS
<1> HIDE DEF u, a, b, n
<1>3. ASSUME j + (a + b) <= n + 1, \A k \in 1 .. a + b : q[j + k - 1] = u[k]
      PROVE  /\ j + a <= n + 1 /\ \A k \in 1 .. a : q[j + k - 1] = v[k]
             /\ (j + a) + b <= n + 1 /\ \A k \in 1 .. b : q[(j + a) + k - 1] = w[k]
  <2>1. \A k \in 1 .. a : q[j + k - 1] = v[k]
    <3> TAKE k \in 1 .. a
    <3>1. k \in 1 .. a + b /\ k <= a BY <1>2
    <3> QED BY <1>1, <1>3, <3>1
  <2>2. \A k \in 1 .. b : q[(j + a) + k - 1] = w[k]
    <3> TAKE k \in 1 .. b
    <3>1. a + k \in 1 .. a + b /\ ~(a + k <= a) /\ (a + k) - a = k /\ (j + a) + k - 1 = j + (a + k) - 1 BY <1>2
    <3>2. q[j + (a + k) - 1] = u[a + k] BY <1>3, <3>1
    <3> QED BY <1>1, <3>1, <3>2
  <2> QED BY <1>2, <1>3, <2>1, <2>2
<1>4. ASSUME j + a <= n + 1, \A k \in 1 .. a : q[j + k - 1] = v[k],
             (j + a) + b <= n + 1, \A k \in 1 .. b : q[(j + a) + k - 1] = w[k]
      PROVE  j + (a + b) <= n + 1 /\ \A k \in 1 .. a + b : q[j + k - 1] = u[k]
  <2>1. \A k \in 1 .. a + b : q[j + k - 1] = u[k]
    <3> TAKE k \in 1 .. a + b
    <3>1. CASE k <= a
      <4>1. k \in 1 .. a BY <1>2, <3>1
      <4> QED BY <1>1, <1>4, <3>1, <4>1
    <3>2. CASE ~(k <= a)
      <4>1. k - a \in 1 .. b /\ (j + a) + (k - a) - 1 = j + k - 1 BY <1>2, <3>2
      <4>2. q[(j + a) + (k - a) - 1] = w[k - a] BY <1>4, <4>1
      <4> QED BY <1>1, <3>2, <4>1, <4>2
    <3> QED BY <3>1, <3>2
  <2> QED BY <1>2, <1>4, <2>1
<1>5. /\ Has(q, j, u) <=> (j + (a + b) <= n + 1 /\ \A k \in 1 .. a + b : q[j + k - 1] = u[k])
      /\ Has(q, j, v) <=> (j + a <= n + 1 /\ \A k \in 1 .. a : q[j + k - 1] = v[k])
      /\ Has(q, j + a, w) <=> ((j + a) + b <= n + 1 /\ \A k \in 1 .. b : q[(j + a) + k - 1] = w[k])
  BY <1>1 DEF Has, a, b, n
<1> QED BY <1>3, <1>4, <1>5 DEF u, a

\* What fits before m and what fits behind it fit together.
LEMMA FitsJoin ==
  ASSUME NEW p \in Seq(Nat), NEW v \in Seq(Nat), NEW w \in Seq(Nat), NEW i \in Nat \ {0},
         NEW m \in Nat, NEW next \in Nat, Fits(p, i, m, v), Fits(p, m, next, w)
  PROVE  Fits(p, i, next, v \o w)
<1>1. Len(v \o w) = Len(v) + Len(w) BY ConcatProperties
<1>2. i + Len(v) <= m /\ m + Len(w) <= next /\ Len(v) \in Nat /\ Len(w) \in Nat BY DEF Fits
<1>3. ASSUME i + (Len(v) + Len(w)) = next PROVE Has(p, i, v \o w)
  <2>1. i + Len(v) = m /\ m + Len(w) = next
    <3>1. \A a, b, c \in Nat : c + a <= m /\ m + b <= next /\ c + (a + b) = next => c + a = m /\ m + b = next
      OBVIOUS
    <3> QED BY <1>2, <1>3, <3>1
  <2>2. Has(p, i, v) /\ Has(p, i + Len(v), w) BY <2>1 DEF Fits
  <2> QED BY <2>2, HasJoin
<1>4. i + (Len(v) + Len(w)) <= next BY <1>2
<1> QED BY <1>1, <1>3, <1>4 DEF Fits

LEMMA HasNone ==
  ASSUME NEW q \in Seq(Nat), NEW j \in 1 .. Len(q) + 1
  PROVE  Has(q, j, << >>) /\ Fits(q, j, j, << >>)
<1>1. Len(<< >>) = 0 OBVIOUS
<1> QED BY <1>1 DEF Has, Fits

LEMMA HasOne ==
  ASSUME NEW q \in Seq(Nat), NEW j \in Nat \ {0}, NEW a
  PROVE  Has(q, j, << a >>) <=> j <= Len(q) /\ q[j] = a
<1> DEFINE w == << a >>
<1>1. Len(w) = 1 /\ w[1] = a OBVIOUS
<1> HIDE DEF w
<1>2. Has(q, j, w) <=> (j + 1 <= Len(q) + 1 /\ \A k \in 1 .. 1 : q[j + k - 1] = w[k]) BY <1>1 DEF Has
<1>3. (\A k \in 1 .. 1 : q[j + k - 1] = w[k]) <=> q[j] = w[1]
  <2>1. 1 .. 1 = {1} /\ j + 1 - 1 = j OBVIOUS
  <2> QED BY <2>1
<1>4. Has(q, j, w) <=> j <= Len(q) /\ q[j] = a BY <1>1, <1>2, <1>3
<1> QED BY <1>4 DEF w

LEMMA HasTwo ==
  ASSUME NEW q \in Seq(Nat), NEW j \in Nat \ {0}, NEW a, NEW b
  PROVE  Has(q, j, << a, b >>) <=> j + 1 <= Len(q) /\ q[j] = a /\ q[j + 1] = b
<1> DEFINE w == << a, b >>
<1>1. Len(w) = 2 /\ w[1] = a /\ w[2] = b OBVIOUS
<1> HIDE DEF w
<1>2. Has(q, j, w) <=> (j + 2 <= Len(q) + 1 /\ \A k \in 1 .. 2 : q[j + k - 1] = w[k]) BY <1>1 DEF Has
<1>3. (\A k \in 1 .. 2 : q[j + k - 1] = w[k]) <=> q[j] = w[1] /\ q[j + 1] = w[2]
  <2>1. 1 .. 2 = {1, 2} /\ j + 1 - 1 = j /\ j + 2 - 1 = j + 1 OBVIOUS
  <2> QED BY <2>1
<1>4. Has(q, j, w) <=> j + 1 <= Len(q) /\ q[j] = a /\ q[j + 1] = b BY <1>1, <1>2, <1>3
<1> QED BY <1>4 DEF w

LEMMA HasThree ==
  ASSUME NEW q \in Seq(Nat), NEW j \in Nat \ {0}, NEW a, NEW b, NEW c
  PROVE  Has(q, j, << a, b, c >>) <=> j + 2 <= Len(q) /\ q[j] = a /\ q[j + 1] = b /\ q[j + 2] = c
<1> DEFINE w == << a, b, c >>
<1>1. Len(w) = 3 /\ w[1] = a /\ w[2] = b /\ w[3] = c OBVIOUS
<1> HIDE DEF w
<1>2. Has(q, j, w) <=> (j + 3 <= Len(q) + 1 /\ \A k \in 1 .. 3 : q[j + k - 1] = w[k]) BY <1>1 DEF Has
<1>3. (\A k \in 1 .. 3 : q[j + k - 1] = w[k]) <=> q[j] = w[1] /\ q[j + 1] = w[2] /\ q[j + 2] = w[3]
  <2>1. 1 .. 3 = {1, 2, 3} /\ j + 1 - 1 = j /\ j + 2 - 1 = j + 1 /\ j + 3 - 1 = j + 2 OBVIOUS
  <2> QED BY <2>1
<1>4. Has(q, j, w) <=> j + 2 <= Len(q) /\ q[j] = a /\ q[j + 1] = b /\ q[j + 2] = c BY <1>1, <1>2, <1>3
<1> QED BY <1>4 DEF w

\* Numbers of fields.

Fields == 0 .. 7       \* a cell: 0 .. FieldMod - 1
Unsigneds == 0 .. 63   \* two cells, without a sign
Signeds == -32 .. 31   \* two cells, with a sign

\* The numbers of module HeapEntries.
LEMMA FieldsAre == FieldMod = 8 /\ Negative = 4 /\ LongU = 7 /\ LongerU = 6 /\ LongS = 4 /\ LongerS = 5
BY DEF FieldMod, Negative, LongU, LongerU, LongS, LongerS

LEMMA Digits ==
  /\ \A a, b \in Fields : /\ a * 8 + b \in Unsigneds
                          /\ ((a * 8 + b) \div 8) % 8 = a
                          /\ (a * 8 + b) % 8 = b
  /\ \A v \in Unsigneds : /\ (v \div 8) % 8 \in Fields /\ v % 8 \in Fields
                          /\ ((v \div 8) % 8) * 8 + (v % 8) = v
  /\ \A v \in Signeds : v \in -4 .. 3 => v % 8 = IF v < 0 THEN v + 8 ELSE v
  /\ \A v \in Signeds : /\ (v \div 8) % 8 \in Fields /\ v % 8 \in Fields
                        /\ SignedPair((v \div 8) % 8, v % 8) = v
  /\ \A a, b \in Fields : /\ SignedPair(a, b) \in Signeds
                          /\ (SignedPair(a, b) \div 8) % 8 = a
                          /\ SignedPair(a, b) % 8 = b
<1>1. \A a, b \in Fields : /\ a * 8 + b \in Unsigneds
                           /\ ((a * 8 + b) \div 8) % 8 = a
                           /\ (a * 8 + b) % 8 = b
  BY DEF Fields, Unsigneds
<1>2. \A v \in Unsigneds : /\ (v \div 8) % 8 \in Fields /\ v % 8 \in Fields
                           /\ ((v \div 8) % 8) * 8 + (v % 8) = v
  BY DEF Fields, Unsigneds
<1>3. \A v \in Signeds : v \in -4 .. 3 => v % 8 = IF v < 0 THEN v + 8 ELSE v
  BY DEF Signeds
<1>4. \A x, y : SignedPair(x, y) = (IF x >= 4 THEN x - 8 ELSE x) * 8 + y
  BY FieldsAre DEF SignedPair, SignedCell
<1>5. \A v \in Signeds : /\ (v \div 8) % 8 \in Fields /\ v % 8 \in Fields
                         /\ SignedPair((v \div 8) % 8, v % 8) = v
  BY <1>4 DEF Fields, Signeds
<1>6. \A a, b \in Fields : /\ SignedPair(a, b) \in Signeds
                           /\ (SignedPair(a, b) \div 8) % 8 = a
                           /\ SignedPair(a, b) % 8 = b
  <2> TAKE a, b \in Fields
  <2>1. \A x \in 0 .. 3, y \in 0 .. 7 : /\ x * 8 + y \in -32 .. 31
                                       /\ ((x * 8 + y) \div 8) % 8 = x
                                       /\ (x * 8 + y) % 8 = y
    OBVIOUS
  <2>2. \A x \in 4 .. 7, y \in 0 .. 7 : /\ (x - 8) * 8 + y \in -32 .. 31
                                       /\ (((x - 8) * 8 + y) \div 8) % 8 = x
                                       /\ ((x - 8) * 8 + y) % 8 = y
    OBVIOUS
  <2>3. CASE a >= 4
    <3>1. a \in 4 .. 7 /\ b \in 0 .. 7 /\ SignedPair(a, b) = (a - 8) * 8 + b BY <1>4, <2>3 DEF Fields
    <3> QED BY <2>2, <3>1 DEF Signeds
  <2>4. CASE ~(a >= 4)
    <3>1. a \in 0 .. 3 /\ b \in 0 .. 7 /\ SignedPair(a, b) = a * 8 + b BY <1>4, <2>4 DEF Fields
    <3> QED BY <2>1, <3>1 DEF Signeds
  <2> QED BY <2>3, <2>4
<1> QED BY <1>1, <1>2, <1>3, <1>5, <1>6

LEMMA Writes ==
  /\ \A v \in Unsigneds :
       /\ v < 6 => WriteU124(v) = << v >>
       /\ v \in 6 .. 7 => WriteU124(v) = << 7, v >>
       /\ v >= 8 => WriteU124(v) = << 6, (v \div 8) % 8, v % 8 >>
  /\ \A v \in Signeds :
       /\ v \in -2 .. 3 => WriteS124(v) = << v % 8 >>
       /\ v \in -4 .. -3 => WriteS124(v) = << 4, v % 8 >>
       /\ v \notin -4 .. 3 => WriteS124(v) = << 5, (v \div 8) % 8, v % 8 >>
       /\ v \in -3 .. 3 => WriteS24(v) = << v % 8 >>
       /\ v \notin -3 .. 3 => WriteS24(v) = << 4, (v \div 8) % 8, v % 8 >>
<1>1. \A v : WritePair(v) = << (v \div 8) % 8, v % 8 >> BY FieldsAre DEF WritePair
<1>2. \A v, e : << e >> \o WritePair(v) = << e, (v \div 8) % 8, v % 8 >>
  <2> TAKE v, e
  <2> DEFINE a == (v \div 8) % 8
             b == v % 8
  <2>1. << e >> \o << a, b >> = << e, a, b >> BY JoinThree, Zenon
  <2> QED BY <1>1, <2>1, Zenon
<1>3. ASSUME NEW v \in Unsigneds
      PROVE  /\ v < 6 => WriteU124(v) = << v >>
             /\ v \in 6 .. 7 => WriteU124(v) = << 7, v >>
             /\ v >= 8 => WriteU124(v) = << 6, (v \div 8) % 8, v % 8 >>
  <2>1. WriteU124(v) = IF v < 6 THEN << v >> ELSE IF v < 8 THEN << 7, v >> ELSE << 6 >> \o WritePair(v)
    BY FieldsAre DEF WriteU124
  <2>2. /\ v < 6 => WriteU124(v) = << v >>
        /\ v \in 6 .. 7 => ~(v < 6) /\ v < 8
        /\ v >= 8 => ~(v < 6) /\ ~(v < 8)
    BY <2>1 DEF Unsigneds
  <2> QED BY <1>2, <2>1, <2>2, Zenon
<1>4. ASSUME NEW v \in Signeds
      PROVE  /\ v \in -2 .. 3 => WriteS124(v) = << v % 8 >>
             /\ v \in -4 .. -3 => WriteS124(v) = << 4, v % 8 >>
             /\ v \notin -4 .. 3 => WriteS124(v) = << 5, (v \div 8) % 8, v % 8 >>
             /\ v \in -3 .. 3 => WriteS24(v) = << v % 8 >>
             /\ v \notin -3 .. 3 => WriteS24(v) = << 4, (v \div 8) % 8, v % 8 >>
  <2>1. WriteS124(v) = IF v \in (2 - 4) .. (4 - 1) THEN << v % 8 >>
                       ELSE IF v \in (-4) .. (4 - 1) THEN << 4, v % 8 >> ELSE << 5 >> \o WritePair(v)
    BY FieldsAre, Zenon DEF WriteS124
  <2>2. WriteS24(v) = IF v \in (1 - 4) .. (4 - 1) THEN << v % 8 >> ELSE << 4 >> \o WritePair(v)
    BY FieldsAre, Zenon DEF WriteS24
  <2>3. /\ v \in (2 - 4) .. (4 - 1) <=> v \in -2 .. 3
        /\ v \in (-4) .. (4 - 1) <=> v \in -4 .. 3
        /\ v \in (1 - 4) .. (4 - 1) <=> v \in -3 .. 3
        /\ v \in -4 .. -3 => v \notin -2 .. 3 /\ v \in -4 .. 3
        /\ v \notin -4 .. 3 => v \notin -2 .. 3
    BY DEF Signeds
  <2>4. << 5 >> \o WritePair(v) = << 5, (v \div 8) % 8, v % 8 >>
        /\ << 4 >> \o WritePair(v) = << 4, (v \div 8) % 8, v % 8 >>
    BY <1>2, Zenon
  <2>5. /\ v \in -2 .. 3 => WriteS124(v) = << v % 8 >>
        /\ v \in -4 .. -3 => WriteS124(v) = << 4, v % 8 >>
        /\ v \notin -4 .. 3 => WriteS124(v) = << 5, (v \div 8) % 8, v % 8 >>
    BY <2>1, <2>3, <2>4, Zenon
  <2>6. /\ v \in -3 .. 3 => WriteS24(v) = << v % 8 >>
        /\ v \notin -3 .. 3 => WriteS24(v) = << 4, (v \div 8) % 8, v % 8 >>
    BY <2>2, <2>3, <2>4, Zenon
  <2> QED BY <2>5, <2>6
<1> QED BY <1>3, <1>4

\* Every number is written in at least one cell.
LEMMA WritesAre ==
  /\ \A v \in Unsigneds : WriteU124(v) \in Seq(Fields) /\ Len(WriteU124(v)) >= 1
  /\ \A v \in Signeds : /\ WriteS124(v) \in Seq(Fields) /\ Len(WriteS124(v)) >= 1
                        /\ WriteS24(v) \in Seq(Fields) /\ Len(WriteS24(v)) >= 1
<1>1. \A a, b, c \in Fields : /\ << a >> \in Seq(Fields) /\ Len(<< a >>) >= 1
                              /\ << a, b >> \in Seq(Fields) /\ Len(<< a, b >>) >= 1
                              /\ << a, b, c >> \in Seq(Fields) /\ Len(<< a, b, c >>) >= 1
  OBVIOUS
<1>2. 4 \in Fields /\ 5 \in Fields /\ 6 \in Fields /\ 7 \in Fields BY DEF Fields
<1>3. ASSUME NEW v \in Unsigneds PROVE WriteU124(v) \in Seq(Fields) /\ Len(WriteU124(v)) >= 1
  <2>1. (v \div 8) % 8 \in Fields /\ v % 8 \in Fields BY Digits
  <2>2. v < 6 \/ v \in 6 .. 7 \/ v >= 8 BY DEF Unsigneds
  <2>3. CASE v < 6
    <3>1. v \in Fields /\ WriteU124(v) = << v >> BY <2>3, Writes DEF Unsigneds, Fields
    <3> QED BY <1>1, <3>1
  <2>4. CASE v \in 6 .. 7
    <3>1. v \in Fields /\ WriteU124(v) = << 7, v >> BY <2>4, Writes DEF Fields
    <3> QED BY <1>1, <1>2, <3>1
  <2>5. CASE v >= 8 
    <3>1. WriteU124(v) = << 6, (v \div 8) % 8, v % 8 >> BY <2>5, Writes
    <3> QED BY <1>1, <1>2, <2>1, <3>1
  <2> QED BY <2>2, <2>3, <2>4, <2>5
<1>4. ASSUME NEW v \in Signeds
      PROVE  /\ WriteS124(v) \in Seq(Fields) /\ Len(WriteS124(v)) >= 1
             /\ WriteS24(v) \in Seq(Fields) /\ Len(WriteS24(v)) >= 1
  <2>1. (v \div 8) % 8 \in Fields /\ v % 8 \in Fields BY Digits
  <2>2. /\ v \in -2 .. 3 \/ v \in -4 .. -3 \/ v \notin -4 .. 3
        /\ v \in -3 .. 3 \/ v \notin -3 .. 3
    BY DEF Signeds
  <2>3. \/ WriteS124(v) = << v % 8 >> \/ WriteS124(v) = << 4, v % 8 >>
        \/ WriteS124(v) = << 5, (v \div 8) % 8, v % 8 >>
    BY <2>2, Writes
  <2>4. WriteS24(v) = << v % 8 >> \/ WriteS24(v) = << 4, (v \div 8) % 8, v % 8 >> BY <2>2, Writes
  <2>5. WriteS124(v) \in Seq(Fields) /\ Len(WriteS124(v)) >= 1 BY <1>1, <1>2, <2>1, <2>3
  <2>6. WriteS24(v) \in Seq(Fields) /\ Len(WriteS24(v)) >= 1 BY <1>1, <1>2, <2>1, <2>4
  <2> QED BY <2>5, <2>6
<1> QED BY <1>3, <1>4

\* What a reader gives: numbers in their range, in cells that their shortest form fits.
LEMMA FieldCells ==
  ASSUME NEW p \in Seq(Fields)
  PROVE  p \in Seq(Nat) /\ Len(p) \in Nat /\ \A i \in 1 .. Len(p) : p[i] \in Fields
<1>1. Fields \subseteq Nat BY DEF Fields
<1>2. p \in Seq(Nat) BY <1>1, SeqMonotonic
<1> QED BY <1>2

LEMMA U124Reads ==
  ASSUME NEW p, NEW i
  PROVE  /\ i > Len(p) => U124(p, i) = {}
         /\ ~(i > Len(p)) /\ p[i] = 7 => U124(p, i) = IF i + 1 > Len(p) THEN {} ELSE Read(p[i + 1], i + 2)
         /\ ~(i > Len(p)) /\ p[i] = 6
              => U124(p, i) = IF i + 2 > Len(p) THEN {} ELSE Read(p[i + 1] * 8 + p[i + 2], i + 3)
         /\ ~(i > Len(p)) /\ p[i] # 7 /\ p[i] # 6 => U124(p, i) = Read(p[i], i + 1)
<1>1. 6 # 7 OBVIOUS
<1> QED BY <1>1, FieldsAre, Zenon DEF U124

LEMMA S124Reads ==
  ASSUME NEW p, NEW i
  PROVE  /\ i > Len(p) => S124(p, i) = {}
         /\ ~(i > Len(p)) /\ p[i] = 4
              => S124(p, i) = IF i + 1 > Len(p) THEN {} ELSE Read(SignedCell(p[i + 1]), i + 2)
         /\ ~(i > Len(p)) /\ p[i] = 5
              => S124(p, i) = IF i + 2 > Len(p) THEN {} ELSE Read(SignedPair(p[i + 1], p[i + 2]), i + 3)
         /\ ~(i > Len(p)) /\ p[i] # 4 /\ p[i] # 5 => S124(p, i) = Read(SignedCell(p[i]), i + 1)
<1>1. 4 # 5 OBVIOUS
<1> QED BY <1>1, FieldsAre, Zenon DEF S124

LEMMA S24Reads ==
  ASSUME NEW p, NEW i
  PROVE  /\ i > Len(p) => S24(p, i) = {}
         /\ ~(i > Len(p)) /\ p[i] = 4
              => S24(p, i) = IF i + 2 > Len(p) THEN {} ELSE Read(SignedPair(p[i + 1], p[i + 2]), i + 3)
         /\ ~(i > Len(p)) /\ p[i] # 4 => S24(p, i) = Read(SignedCell(p[i]), i + 1)
BY FieldsAre, Zenon DEF S24

LEMMA SignedIs ==
  /\ \A a \in Fields : SignedCell(a) \in -4 .. 3 /\ SignedCell(a) \in Signeds /\ SignedCell(a) % 8 = a
  /\ \A v \in -4 .. 3 : v % 8 \in Fields /\ SignedCell(v % 8) = v
  /\ \A v \in -4 .. 3 : (v = -4 <=> v % 8 = 4) /\ (v = -3 <=> v % 8 = 5)
<1>1. \A a : SignedCell(a) = IF a >= 4 THEN a - 8 ELSE a BY FieldsAre DEF SignedCell
<1>2. \A a \in Fields : SignedCell(a) \in -4 .. 3 /\ SignedCell(a) \in Signeds /\ SignedCell(a) % 8 = a
  BY <1>1 DEF Fields, Signeds
<1>3. \A v \in -4 .. 3 : v % 8 = IF v < 0 THEN v + 8 ELSE v BY Digits DEF Signeds
<1>4. \A v \in -4 .. 3 : v % 8 \in Fields /\ SignedCell(v % 8) = v BY <1>1, <1>3 DEF Fields
<1>5. \A v \in -4 .. 3 : (v = -4 <=> v % 8 = 4) /\ (v = -3 <=> v % 8 = 5) BY <1>3
<1> QED BY <1>2, <1>4, <1>5

LEMMA FewFit ==
  ASSUME NEW p \in Seq(Nat), NEW i \in Nat \ {0}, NEW a, NEW b, NEW c
  PROVE  /\ Fits(p, i, i + 2, << a >>) /\ Fits(p, i, i + 3, << a >>) /\ Fits(p, i, i + 3, << a, b >>)
         /\ i <= Len(p) /\ p[i] = a => Fits(p, i, i + 1, << a >>)
         /\ i + 1 <= Len(p) /\ p[i] = a /\ p[i + 1] = b => Fits(p, i, i + 2, << a, b >>)
         /\ i + 2 <= Len(p) /\ p[i] = a /\ p[i + 1] = b /\ p[i + 2] = c => Fits(p, i, i + 3, << a, b, c >>)
<1>1. Len(<< a >>) = 1 /\ Len(<< a, b >>) = 2 /\ Len(<< a, b, c >>) = 3 OBVIOUS
<1>2. ASSUME NEW w, NEW n \in Nat, NEW m \in Nat, Len(w) = n, n < m PROVE Fits(p, i, i + m, w)
  <2>1. i + n <= i + m /\ i + n # i + m BY <1>2
  <2> QED BY <1>2, <2>1 DEF Fits
<1>3. ASSUME NEW w, NEW n \in Nat, Len(w) = n, Has(p, i, w) PROVE Fits(p, i, i + n, w)
  <2>1. i + n <= i + n OBVIOUS
  <2> QED BY <1>3, <2>1 DEF Fits
<1>4. Fits(p, i, i + 2, << a >>) /\ Fits(p, i, i + 3, << a >>) /\ Fits(p, i, i + 3, << a, b >>)
  <2>1. 1 < 2 /\ 1 < 3 /\ 2 < 3 /\ 1 \in Nat /\ 2 \in Nat /\ 3 \in Nat OBVIOUS
  <2> QED BY <1>1, <1>2, <2>1, Zenon
<1>5. i <= Len(p) /\ p[i] = a => Fits(p, i, i + 1, << a >>)
  <2>1. 1 \in Nat OBVIOUS
  <2> QED BY <1>1, <1>3, <2>1, HasOne, Zenon
<1>6. i + 1 <= Len(p) /\ p[i] = a /\ p[i + 1] = b => Fits(p, i, i + 2, << a, b >>)
  <2>1. 2 \in Nat OBVIOUS
  <2> QED BY <1>1, <1>3, <2>1, HasTwo, Zenon
<1>7. i + 2 <= Len(p) /\ p[i] = a /\ p[i + 1] = b /\ p[i + 2] = c => Fits(p, i, i + 3, << a, b, c >>)
  <2>1. 3 \in Nat OBVIOUS
  <2> QED BY <1>1, <1>3, <2>1, HasThree, Zenon
<1> QED BY <1>4, <1>5, <1>6, <1>7

\* What is read was written in at least as many cells as its shortest form has, and
\* the shortest form is read as what it was written for; likewise for each part below.
LEMMA U124Is ==
  ASSUME NEW p \in Seq(Fields), NEW i \in Nat \ {0}
  PROVE  /\ \A r \in U124(p, i) : /\ r.value \in Unsigneds
                                  /\ r.next \in (i + 1) .. (Len(p) + 1)
                                  /\ Fits(p, i, r.next, WriteU124(r.value))
         /\ \A v \in Unsigneds : Has(p, i, WriteU124(v)) => U124(p, i) = Read(v, i + Len(WriteU124(v)))
<1>0. p \in Seq(Nat) /\ Len(p) \in Nat /\ \A k \in 1 .. Len(p) : p[k] \in 0 .. 7 BY FieldCells DEF Fields
<1>1. ASSUME NEW r \in U124(p, i)
      PROVE  /\ r.value \in Unsigneds
             /\ r.next \in (i + 1) .. (Len(p) + 1)
             /\ Fits(p, i, r.next, WriteU124(r.value))
  <2>0. i \in 1 .. Len(p) /\ p[i] \in 0 .. 7 BY <1>0, U124Reads
  <2>1. CASE p[i] = 7
    <3> DEFINE v == p[i + 1]
    <3>1. i + 1 <= Len(p) /\ r = [value |-> v, next |-> i + 2]
      BY <1>0, <2>0, <2>1, U124Reads DEF Read
    <3>2. v \in Unsigneds /\ r.value = v /\ r.next = i + 2 BY <1>0, <3>1 DEF Unsigneds
    <3>3. p[i + 1] = v OBVIOUS
    <3> HIDE DEF v
    <3>4. Fits(p, i, i + 2, WriteU124(v))
      <4>1. CASE v < 6
        <5>1. WriteU124(v) = << v >> BY <3>2, <4>1, Writes
        <5> QED BY <1>0, <5>1, FewFit, Zenon
      <4>2. CASE v \in 6 .. 7
        <5>1. WriteU124(v) = << 7, v >> BY <3>2, <4>2, Writes
        <5> QED BY <1>0, <2>1, <3>1, <3>3, <5>1, FewFit, Zenon
      <4>3. v \in 0 .. 7 BY <1>0, <3>1, <3>3
      <4> QED BY <4>1, <4>2, <4>3
    <3> QED BY <1>0, <3>1, <3>2, <3>4
  <2>2. CASE p[i] = 6
    <3> DEFINE a == p[i + 1]
               b == p[i + 2]
               v == a * 8 + b
    <3>1. i + 2 <= Len(p) /\ r = [value |-> v, next |-> i + 3]
      BY <1>0, <2>0, <2>2, U124Reads DEF Read
    <3>2. a \in Fields /\ b \in Fields BY <1>0, <3>1 DEF Fields
    <3>3. v \in Unsigneds /\ r.value = v /\ r.next = i + 3 /\ (v \div 8) % 8 = a /\ v % 8 = b
      BY <3>1, <3>2, Digits
    <3>4. p[i + 1] = a /\ p[i + 2] = b OBVIOUS
    <3> HIDE DEF v, a, b
    <3>5. Fits(p, i, i + 3, WriteU124(v))
      <4>1. CASE v < 6
        <5>1. WriteU124(v) = << v >> BY <3>3, <4>1, Writes
        <5> QED BY <1>0, <5>1, FewFit, Zenon
      <4>2. CASE v \in 6 .. 7
        <5>1. WriteU124(v) = << 7, v >> BY <3>3, <4>2, Writes
        <5> QED BY <1>0, <5>1, FewFit, Zenon
      <4>3. CASE v >= 8
        <5>1. WriteU124(v) = << 6, a, b >> BY <3>3, <4>3, Writes
        <5> QED BY <1>0, <2>2, <3>1, <3>4, <5>1, FewFit, Zenon
      <4>4. v < 6 \/ v \in 6 .. 7 \/ v >= 8 BY <3>3 DEF Unsigneds
      <4> QED BY <4>1, <4>2, <4>3, <4>4
    <3> QED BY <1>0, <3>1, <3>3, <3>5
  <2>3. CASE p[i] # 7 /\ p[i] # 6
    <3> DEFINE v == p[i]
    <3>1. r = [value |-> v, next |-> i + 1] BY <1>0, <2>0, <2>3, U124Reads DEF Read
    <3>2. v \in Unsigneds /\ v < 6 BY <2>0, <2>3 DEF Unsigneds
    <3>3. p[i] = v OBVIOUS
    <3> HIDE DEF v
    <3>4. WriteU124(v) = << v >> BY <3>2, Writes
    <3>5. i <= Len(p) BY <2>0
    <3>6. Fits(p, i, i + 1, WriteU124(v)) BY <1>0, <3>3, <3>4, <3>5, FewFit, Zenon
    <3> QED BY <1>0, <2>0, <3>1, <3>2, <3>6
  <2> QED BY <2>1, <2>2, <2>3
<1>2. ASSUME NEW v \in Unsigneds, Has(p, i, WriteU124(v))
      PROVE  U124(p, i) = Read(v, i + Len(WriteU124(v)))
  <2>1. CASE v < 6
    <3>1. WriteU124(v) = << v >> BY <2>1, Writes
    <3>2. Len(WriteU124(v)) = 1 BY <3>1
    <3>a. Has(p, i, << v >>) BY <1>2, <3>1
    <3>3. i <= Len(p) /\ p[i] = v BY <1>0, <3>a, HasOne, Zenon
    <3>4. p[i] # 7 /\ p[i] # 6 /\ ~(i > Len(p)) BY <1>0, <2>1, <3>3
    <3> QED BY <3>2, <3>3, <3>4, U124Reads
  <2>2. CASE v \in 6 .. 7
    <3>1. WriteU124(v) = << 7, v >> BY <2>2, Writes
    <3>2. Len(WriteU124(v)) = 2 BY <3>1
    <3>a. Has(p, i, << 7, v >>) BY <1>2, <3>1
    <3>b. \A x, y : Has(p, i, << x, y >>) => i + 1 <= Len(p) /\ p[i] = x /\ p[i + 1] = y BY <1>0, HasTwo
    <3>3. i + 1 <= Len(p) /\ p[i] = 7 /\ p[i + 1] = v BY <3>a, <3>b, Zenon
    <3>4. ~(i + 1 > Len(p)) /\ ~(i > Len(p)) BY <1>0, <3>3
    <3> QED BY <3>2, <3>3, <3>4, U124Reads
  <2>3. CASE v >= 8
    <3> DEFINE a == (v \div 8) % 8
               b == v % 8
    <3>1. WriteU124(v) = << 6, a, b >> BY <2>3, Writes
    <3>2. a * 8 + b = v BY Digits
    <3> HIDE DEF a, b
    <3>3. Len(WriteU124(v)) = 3 BY <3>1
    <3>a. Has(p, i, << 6, a, b >>) BY <1>2, <3>1
    <3>b. \A x, y, z : Has(p, i, << x, y, z >>)
                        => i + 2 <= Len(p) /\ p[i] = x /\ p[i + 1] = y /\ p[i + 2] = z
      BY <1>0, HasThree
    <3>4. i + 2 <= Len(p) /\ p[i] = 6 /\ p[i + 1] = a /\ p[i + 2] = b BY <3>a, <3>b, Zenon
    <3>5. ~(i + 2 > Len(p)) /\ ~(i > Len(p)) BY <1>0, <3>4
    <3> QED BY <3>2, <3>3, <3>4, <3>5, U124Reads
  <2>4. v < 6 \/ v \in 6 .. 7 \/ v >= 8 BY DEF Unsigneds
  <2> QED BY <2>1, <2>2, <2>3, <2>4
<1> QED BY <1>1, <1>2

LEMMA S124Is ==
  ASSUME NEW p \in Seq(Fields), NEW i \in Nat \ {0}
  PROVE  /\ \A r \in S124(p, i) : /\ r.value \in Signeds
                                  /\ r.next \in (i + 1) .. (Len(p) + 1)
                                  /\ Fits(p, i, r.next, WriteS124(r.value))
         /\ \A v \in Signeds : Has(p, i, WriteS124(v)) => S124(p, i) = Read(v, i + Len(WriteS124(v)))
<1>0. p \in Seq(Nat) /\ Len(p) \in Nat /\ \A k \in 1 .. Len(p) : p[k] \in Fields BY FieldCells
<1>1. ASSUME NEW r \in S124(p, i)
      PROVE  /\ r.value \in Signeds
             /\ r.next \in (i + 1) .. (Len(p) + 1)
             /\ Fits(p, i, r.next, WriteS124(r.value))
  <2>0. i \in 1 .. Len(p) /\ p[i] \in Fields BY <1>0, S124Reads
  <2>1. CASE p[i] = 4
    <3> DEFINE a == p[i + 1]
               v == SignedCell(a)
    <3>1. i + 1 <= Len(p) /\ r = [value |-> v, next |-> i + 2]
      BY <1>0, <2>0, <2>1, S124Reads DEF Read
    <3>2. a \in Fields BY <1>0, <3>1
    <3>3. v \in -4 .. 3 /\ v \in Signeds /\ v % 8 = a BY <3>2, SignedIs
    <3>4. r.value = v /\ r.next = i + 2 BY <3>1
    <3>5. p[i + 1] = a OBVIOUS
    <3> HIDE DEF v, a
    <3>6. Fits(p, i, i + 2, WriteS124(v))
      <4>1. CASE v \in -2 .. 3
        <5>1. WriteS124(v) = << a >> BY <3>3, <4>1, Writes
        <5> QED BY <1>0, <5>1, FewFit, Zenon
      <4>2. CASE v \in -4 .. -3
        <5>1. WriteS124(v) = << 4, a >> BY <3>3, <4>2, Writes
        <5> QED BY <1>0, <2>1, <3>1, <3>5, <5>1, FewFit, Zenon
      <4>3. v \in -2 .. 3 \/ v \in -4 .. -3 BY <3>3
      <4> QED BY <4>1, <4>2, <4>3
    <3> QED BY <1>0, <3>1, <3>3, <3>4, <3>6
  <2>2. CASE p[i] = 5
    <3> DEFINE a == p[i + 1]
               b == p[i + 2]
               v == SignedPair(a, b)
    <3>1. i + 2 <= Len(p) /\ r = [value |-> v, next |-> i + 3]
      BY <1>0, <2>0, <2>2, S124Reads DEF Read
    <3>2. a \in Fields /\ b \in Fields BY <1>0, <3>1
    <3>3. v \in Signeds /\ (v \div 8) % 8 = a /\ v % 8 = b BY <3>2, Digits
    <3>4. r.value = v /\ r.next = i + 3 BY <3>1
    <3>5. p[i + 1] = a /\ p[i + 2] = b OBVIOUS
    <3> HIDE DEF v, a, b
    <3>6. Fits(p, i, i + 3, WriteS124(v))
      <4>1. CASE v \in -2 .. 3
        <5>1. WriteS124(v) = << b >> BY <3>3, <4>1, Writes
        <5> QED BY <1>0, <5>1, FewFit, Zenon
      <4>2. CASE v \in -4 .. -3
        <5>1. WriteS124(v) = << 4, b >> BY <3>3, <4>2, Writes
        <5> QED BY <1>0, <5>1, FewFit, Zenon
      <4>3. CASE v \notin -4 .. 3
        <5>1. WriteS124(v) = << 5, a, b >> BY <3>3, <4>3, Writes
        <5> QED BY <1>0, <2>2, <3>1, <3>5, <5>1, FewFit, Zenon
      <4>4. v \in -2 .. 3 \/ v \in -4 .. -3 \/ v \notin -4 .. 3 BY <3>3 DEF Signeds
      <4> QED BY <4>1, <4>2, <4>3, <4>4
    <3> QED BY <1>0, <3>1, <3>3, <3>4, <3>6
  <2>3. CASE p[i] # 4 /\ p[i] # 5
    <3> DEFINE a == p[i]
               v == SignedCell(a)
    <3>1. r = [value |-> v, next |-> i + 1] BY <1>0, <2>0, <2>3, S124Reads DEF Read
    <3>2. v \in -4 .. 3 /\ v \in Signeds /\ v % 8 = a BY <2>0, SignedIs
    <3>3. v # -4 /\ v # -3 BY <2>3, <3>2, SignedIs
    <3>4. r.value = v /\ r.next = i + 1 BY <3>1
    <3>5. p[i] = a OBVIOUS
    <3> HIDE DEF v, a
    <3>6. v \in -2 .. 3 BY <3>2, <3>3
    <3>7. WriteS124(v) = << a >> BY <3>2, <3>6, Writes
    <3>8. i <= Len(p) BY <2>0
    <3>9. Fits(p, i, i + 1, WriteS124(v)) BY <1>0, <3>5, <3>7, <3>8, FewFit, Zenon
    <3> QED BY <1>0, <2>0, <3>2, <3>4, <3>9
  <2> QED BY <2>1, <2>2, <2>3
<1>2. ASSUME NEW v \in Signeds, Has(p, i, WriteS124(v))
      PROVE  S124(p, i) = Read(v, i + Len(WriteS124(v)))
  <2> DEFINE a == (v \div 8) % 8
             b == v % 8
  <2>0. SignedPair(a, b) = v BY Digits
  <2>1. \A x : Has(p, i, << x >>) => i <= Len(p) /\ p[i] = x BY <1>0, HasOne
  <2>2. \A x, y : Has(p, i, << x, y >>) => i + 1 <= Len(p) /\ p[i] = x /\ p[i + 1] = y BY <1>0, HasTwo
  <2>3. \A x, y, z : Has(p, i, << x, y, z >>)
                      => i + 2 <= Len(p) /\ p[i] = x /\ p[i + 1] = y /\ p[i + 2] = z
    BY <1>0, HasThree
  <2>4. CASE v \in -2 .. 3
    <3>1. WriteS124(v) = << b >> BY <2>4, Writes
    <3>2. Len(WriteS124(v)) = 1 BY <3>1
    <3>3. v \in -4 .. 3 /\ v # -4 /\ v # -3 BY <2>4
    <3>4. SignedCell(b) = v /\ b # 4 /\ b # 5 BY <3>3, SignedIs
    <3> HIDE DEF b
    <3>5. Has(p, i, << b >>) BY <1>2, <3>1
    <3>6. i <= Len(p) /\ p[i] = b BY <2>1, <3>5, Zenon
    <3>7. ~(i > Len(p)) BY <1>0, <3>6
    <3> QED BY <3>2, <3>4, <3>6, <3>7, S124Reads
  <2>5. CASE v \in -4 .. -3
    <3>1. WriteS124(v) = << 4, b >> BY <2>5, Writes
    <3>2. Len(WriteS124(v)) = 2 BY <3>1
    <3>3. v \in -4 .. 3 BY <2>5
    <3>4. SignedCell(b) = v BY <3>3, SignedIs
    <3> HIDE DEF b
    <3>5. Has(p, i, << 4, b >>) BY <1>2, <3>1
    <3>6. i + 1 <= Len(p) /\ p[i] = 4 /\ p[i + 1] = b BY <2>2, <3>5, Zenon
    <3>7. ~(i + 1 > Len(p)) /\ ~(i > Len(p)) BY <1>0, <3>6
    <3> QED BY <3>2, <3>4, <3>6, <3>7, S124Reads
  <2>6. CASE v \notin -4 .. 3
    <3>1. WriteS124(v) = << 5, a, b >> BY <2>6, Writes
    <3>2. Len(WriteS124(v)) = 3 BY <3>1
    <3> HIDE DEF a, b
    <3>5. Has(p, i, << 5, a, b >>) BY <1>2, <3>1
    <3>6. i + 2 <= Len(p) /\ p[i] = 5 /\ p[i + 1] = a /\ p[i + 2] = b BY <2>3, <3>5, Zenon
    <3>7. ~(i + 2 > Len(p)) /\ ~(i > Len(p)) BY <1>0, <3>6
    <3> QED BY <2>0, <3>2, <3>6, <3>7, S124Reads
  <2>7. v \in -2 .. 3 \/ v \in -4 .. -3 \/ v \notin -4 .. 3 BY DEF Signeds
  <2> QED BY <2>4, <2>5, <2>6, <2>7
<1> QED BY <1>1, <1>2

LEMMA S24Is ==
  ASSUME NEW p \in Seq(Fields), NEW i \in Nat \ {0}
  PROVE  /\ \A r \in S24(p, i) : /\ r.value \in Signeds
                                 /\ r.next \in (i + 1) .. (Len(p) + 1)
                                 /\ Fits(p, i, r.next, WriteS24(r.value))
         /\ \A v \in Signeds : Has(p, i, WriteS24(v)) => S24(p, i) = Read(v, i + Len(WriteS24(v)))
<1>0. p \in Seq(Nat) /\ Len(p) \in Nat /\ \A k \in 1 .. Len(p) : p[k] \in Fields BY FieldCells
<1>1. ASSUME NEW r \in S24(p, i)
      PROVE  /\ r.value \in Signeds
             /\ r.next \in (i + 1) .. (Len(p) + 1)
             /\ Fits(p, i, r.next, WriteS24(r.value))
  <2>0. i \in 1 .. Len(p) /\ p[i] \in Fields BY <1>0, S24Reads
  <2>1. CASE p[i] = 4
    <3> DEFINE a == p[i + 1]
               b == p[i + 2]
               v == SignedPair(a, b)
    <3>1. i + 2 <= Len(p) /\ r = [value |-> v, next |-> i + 3]
      BY <1>0, <2>0, <2>1, S24Reads DEF Read
    <3>2. a \in Fields /\ b \in Fields BY <1>0, <3>1
    <3>3. v \in Signeds /\ (v \div 8) % 8 = a /\ v % 8 = b BY <3>2, Digits
    <3>4. r.value = v /\ r.next = i + 3 BY <3>1
    <3>5. p[i + 1] = a /\ p[i + 2] = b OBVIOUS
    <3> HIDE DEF v, a, b
    <3>6. Fits(p, i, i + 3, WriteS24(v))
      <4>1. CASE v \in -3 .. 3
        <5>1. WriteS24(v) = << b >> BY <3>3, <4>1, Writes
        <5> QED BY <1>0, <5>1, FewFit, Zenon
      <4>2. CASE v \notin -3 .. 3
        <5>1. WriteS24(v) = << 4, a, b >> BY <3>3, <4>2, Writes
        <5> QED BY <1>0, <2>1, <3>1, <3>5, <5>1, FewFit, Zenon
      <4> QED BY <4>1, <4>2
    <3> QED BY <1>0, <3>1, <3>3, <3>4, <3>6
  <2>2. CASE p[i] # 4
    <3> DEFINE a == p[i]
               v == SignedCell(a)
    <3>1. r = [value |-> v, next |-> i + 1] BY <1>0, <2>0, <2>2, S24Reads DEF Read
    <3>2. v \in -4 .. 3 /\ v \in Signeds /\ v % 8 = a BY <2>0, SignedIs
    <3>3. v # -4 BY <2>2, <3>2, SignedIs
    <3>4. r.value = v /\ r.next = i + 1 BY <3>1
    <3>5. p[i] = a OBVIOUS
    <3> HIDE DEF v, a
    <3>6. v \in -3 .. 3 BY <3>2, <3>3
    <3>7. WriteS24(v) = << a >> BY <3>2, <3>6, Writes
    <3>8. i <= Len(p) BY <2>0
    <3>9. Fits(p, i, i + 1, WriteS24(v)) BY <1>0, <3>5, <3>7, <3>8, FewFit, Zenon
    <3> QED BY <1>0, <2>0, <3>2, <3>4, <3>9
  <2> QED BY <2>1, <2>2
<1>2. ASSUME NEW v \in Signeds, Has(p, i, WriteS24(v))
      PROVE  S24(p, i) = Read(v, i + Len(WriteS24(v)))
  <2> DEFINE a == (v \div 8) % 8
             b == v % 8
  <2>0. SignedPair(a, b) = v BY Digits
  <2>1. \A x : Has(p, i, << x >>) => i <= Len(p) /\ p[i] = x BY <1>0, HasOne
  <2>2. \A x, y, z : Has(p, i, << x, y, z >>)
                      => i + 2 <= Len(p) /\ p[i] = x /\ p[i + 1] = y /\ p[i + 2] = z
    BY <1>0, HasThree
  <2>3. CASE v \in -3 .. 3
    <3>1. WriteS24(v) = << b >> BY <2>3, Writes
    <3>2. Len(WriteS24(v)) = 1 BY <3>1
    <3>3. v \in -4 .. 3 /\ v # -4 BY <2>3
    <3>4. SignedCell(b) = v /\ b # 4 BY <3>3, SignedIs
    <3> HIDE DEF b
    <3>5. Has(p, i, << b >>) BY <1>2, <3>1
    <3>6. i <= Len(p) /\ p[i] = b BY <2>1, <3>5, Zenon
    <3>7. ~(i > Len(p)) BY <1>0, <3>6
    <3> QED BY <3>2, <3>4, <3>6, <3>7, S24Reads
  <2>4. CASE v \notin -3 .. 3
    <3>1. WriteS24(v) = << 4, a, b >> BY <2>4, Writes
    <3>2. Len(WriteS24(v)) = 3 BY <3>1
    <3> HIDE DEF a, b
    <3>5. Has(p, i, << 4, a, b >>) BY <1>2, <3>1
    <3>6. i + 2 <= Len(p) /\ p[i] = 4 /\ p[i + 1] = a /\ p[i + 2] = b BY <2>2, <3>5, Zenon
    <3>7. ~(i + 2 > Len(p)) /\ ~(i > Len(p)) BY <1>0, <3>6
    <3> QED BY <2>0, <3>2, <3>6, <3>7, S24Reads
  <2> QED BY <2>3, <2>4
<1> QED BY <1>1, <1>2

FlattenAt(f, u, i) == IF i = 1 THEN u[i] ELSE f[i - 1] \o u[i]
Flattens(u) == CHOOSE f : f = [i \in 1 .. Len(u) |-> FlattenAt(f, u, i)]

LEMMA FlattenExists ==
  ASSUME NEW u, Len(u) \in Nat
  PROVE  \A i \in 1 .. Len(u) : Flattens(u)[i] = FlattenAt(Flattens(u), u, i)
<1> DEFINE n == Len(u)
           P(m, f) == f = [i \in 1 .. m |-> FlattenAt(f, u, i)]
           S == {m \in 0 .. n : \E f : P(m, f)}
<1>1. ASSUME NEW m \in 0 .. n, \A k \in 0 .. m - 1 : k \in S PROVE m \in S
  <2>1. CASE m = 0
    <3> DEFINE f == [i \in 1 .. 0 |-> 0]
    <3>1. 1 .. 0 = {} OBVIOUS
    <3>2. P(0, f) BY <3>1
    <3> HIDE DEF P, f
    <3> QED BY <2>1, <3>2
  <2>2. CASE m # 0
    <3>1. m - 1 \in 0 .. m - 1 /\ m \in Nat BY <2>2
    <3>2. PICK f : P(m - 1, f) BY <1>1, <3>1
    <3>3. \A i \in 1 .. m - 1 : f[i] = FlattenAt(f, u, i) BY <3>2
    <3> DEFINE g == [i \in 1 .. m |-> IF i = m THEN FlattenAt(f, u, m) ELSE f[i]]
    <3>4. g[m] = FlattenAt(f, u, m) /\ \A i \in 1 .. m - 1 : g[i] = f[i] BY <3>1
    <3>5. g = [i \in 1 .. m |-> g[i]] OBVIOUS
    <3> HIDE DEF g
    <3>6. ASSUME NEW i \in 1 .. m PROVE g[i] = FlattenAt(g, u, i)
      <4>1. i = 1 \/ i - 1 \in 1 .. m - 1 BY <3>1
      <4>2. FlattenAt(g, u, i) = FlattenAt(f, u, i) BY <3>4, <4>1 DEF FlattenAt
      <4>3. i = m \/ i \in 1 .. m - 1 BY <3>1
      <4> QED BY <3>3, <3>4, <4>2, <4>3
    <3>7. P(m, g) BY <3>5, <3>6
    <3> HIDE DEF P
    <3> QED BY <3>7
  <2> QED BY <2>1, <2>2
<1>2. n \in S
  <2>1. n \in Nat /\ n \in 0 .. n OBVIOUS
  <2> HIDE DEF S, n
  <2> QED BY <1>1, <2>1, FromBelow
<1>3. P(n, Flattens(u)) BY <1>2 DEF Flattens
<1> QED BY <1>3

\* A sequence before others that are put together.
LEMMA FlattenCons ==
  ASSUME NEW S, NEW s \in Seq(S), NEW t \in Seq(Seq(S)), FlattenSeq(t) \in Seq(S)
  PROVE  /\ FlattenSeq(<< s >> \o t) = s \o FlattenSeq(t)
         /\ FlattenSeq(<< s >> \o t) \in Seq(S)
<1> DEFINE u == << s >> \o t
           n == Len(t)
           F == Flattens(u)
           G == Flattens(t)
<1>1. /\ n \in Nat /\ u \in Seq(Seq(S)) /\ Len(u) = n + 1
      /\ u[1] = s /\ \A i \in 1 .. n : u[i + 1] = t[i] /\ t[i] \in Seq(S)
  OBVIOUS
<1>2. /\ FlattenSeq(t) = IF n = 0 THEN t ELSE G[n]
      /\ FlattenSeq(u) = F[n + 1]
  <2>1. \A v : FlattenSeq(v) = IF Len(v) = 0 THEN v ELSE Flattens(v)[Len(v)]
    BY DEF FlattenSeq, Flattens, FlattenAt
  <2> HIDE DEF u
  <2> QED BY <1>1, <2>1
<1>3. /\ \A i \in 1 .. n + 1 : F[i] = FlattenAt(F, u, i)
      /\ \A i \in 1 .. n : G[i] = FlattenAt(G, t, i)
  <2> HIDE DEF u
  <2> QED BY <1>1, FlattenExists
<1> HIDE DEF u, n, F, G
<1>4. F[1] = s BY <1>1, <1>3 DEF FlattenAt
<1> DEFINE T == {i \in 0 .. n : i # 0 => G[i] \in Seq(S) /\ F[i + 1] = s \o G[i]}
<1>5. ASSUME NEW i \in 0 .. n, \A k \in 0 .. i - 1 : k \in T PROVE i \in T
  <2> SUFFICES ASSUME i # 0 PROVE G[i] \in Seq(S) /\ F[i + 1] = s \o G[i]
    OBVIOUS
  <2>1. i \in 1 .. n /\ i + 1 \in 1 .. n + 1 /\ i + 1 # 1 /\ (i + 1) - 1 = i BY <1>1
  <2>2. F[i + 1] = F[i] \o t[i] BY <1>1, <1>3, <2>1 DEF FlattenAt
  <2>3. CASE i = 1 BY <1>1, <1>3, <1>4, <2>1, <2>2, <2>3 DEF FlattenAt
  <2>4. CASE i # 1
    <3>1. i - 1 \in 0 .. i - 1 /\ i - 1 # 0 /\ (i - 1) + 1 = i BY <2>1, <2>4
    <3>2. G[i - 1] \in Seq(S) /\ F[i] = s \o G[i - 1]
      <4>1. i - 1 \in T BY <1>5, <3>1
      <4> QED BY <3>1, <4>1
    <3>3. G[i] = G[i - 1] \o t[i] BY <1>3, <2>1, <2>4 DEF FlattenAt
    <3>4. t[i] \in Seq(S) BY <1>1, <2>1
    <3>5. G[i] \in Seq(S) BY <3>2, <3>3, <3>4, ConcatProperties
    <3>6. (s \o G[i - 1]) \o t[i] = s \o (G[i - 1] \o t[i])
      <4> DEFINE x == G[i - 1]
                 y == t[i]
      <4>1. x \in Seq(S) /\ y \in Seq(S) BY <3>2, <3>4
      <4> HIDE DEF x, y, T
      <4>2. (s \o x) \o y = s \o (x \o y) BY <4>1, ConcatAssociative
      <4> QED BY <4>2 DEF x, y
    <3> QED BY <2>2, <3>2, <3>3, <3>5, <3>6
  <2> QED BY <2>3, <2>4
<1>6. n \in T
  <2> HIDE DEF T
  <2>1. n \in 0 .. n BY <1>1
  <2> QED BY <1>1, <1>5, <2>1, FromBelow
<1>7. F[n + 1] = s \o FlattenSeq(t)
  <2>1. CASE n = 0
    <3>1. t = << >> BY <2>1, EmptySeq DEF n
    <3>2. s \o << >> = s BY ConcatEmptySeq
    <3> QED BY <1>2, <1>4, <2>1, <3>1, <3>2
  <2>2. CASE n # 0 BY <1>2, <1>6, <2>2
  <2> QED BY <2>1, <2>2
<1>8. s \o FlattenSeq(t) \in Seq(S) BY ConcatProperties
<1> QED BY <1>2, <1>7, <1>8 DEF u

LEMMA FlattenTyped ==
  ASSUME NEW S, NEW t \in Seq(Seq(S))
  PROVE  FlattenSeq(t) \in Seq(S)
<1> DEFINE n == Len(t)
           G == Flattens(t)
           T == {i \in 0 .. n : i # 0 => G[i] \in Seq(S)}
<1>1. n \in Nat /\ \A i \in 1 .. n : t[i] \in Seq(S) OBVIOUS
<1>2. FlattenSeq(t) = IF n = 0 THEN t ELSE G[n] BY DEF FlattenSeq, Flattens, FlattenAt
<1>3. \A i \in 1 .. n : G[i] = FlattenAt(G, t, i) BY FlattenExists
<1> HIDE DEF n, G
<1>4. ASSUME NEW i \in 0 .. n, \A k \in 0 .. i - 1 : k \in T PROVE i \in T
  <2> SUFFICES ASSUME i # 0 PROVE G[i] \in Seq(S) OBVIOUS
  <2>1. CASE i = 1 BY <1>1, <1>3, <2>1 DEF FlattenAt
  <2>2. CASE i # 1
    <3>1. i \in 1 .. n /\ i - 1 \in 0 .. i - 1 /\ i - 1 # 0 BY <1>1, <2>2
    <3>2. G[i - 1] \in Seq(S)
      <4>1. i - 1 \in T BY <1>4, <3>1
      <4> QED BY <3>1, <4>1
    <3>3. G[i] = G[i - 1] \o t[i] BY <1>3, <2>2, <3>1 DEF FlattenAt
    <3> QED BY <1>1, <3>1, <3>2, <3>3, ConcatProperties
  <2> QED BY <2>1, <2>2
<1>5. n \in T
  <2> HIDE DEF T
  <2>1. n \in 0 .. n BY <1>1
  <2> QED BY <1>1, <1>4, <2>1, FromBelow
<1>6. CASE n = 0
  <2>1. t = << >> BY <1>6, EmptySeq DEF n
  <2> QED BY <1>2, <1>6, <2>1
<1> QED BY <1>2, <1>5, <1>6

-----------------------------------------------------------------------------
\* Attributes.

Attribute == [id : Signeds, value : Signeds]

WriteAttribute(a) == WriteS124(a.id) \o WriteS24(a.value)

WriteAttributes(as) == FlattenSeq([k \in DOMAIN as |-> WriteAttribute(as[k])])

LEMMA AttributeIs ==
  ASSUME NEW a \in Attribute
  PROVE  WriteAttribute(a) \in Seq(Fields)
BY WritesAre, ConcatProperties DEF WriteAttribute, Attribute

LEMMA ConsIs ==
  ASSUME NEW S, NEW a \in S, NEW s \in Seq(S)
  PROVE  LET t == << a >> \o s IN
         /\ Len(s) \in Nat /\ t \in Seq(S) /\ Len(t) = Len(s) + 1
         /\ t[1] = a /\ \A k \in 1 .. Len(s) : t[k + 1] = s[k]
OBVIOUS

MapOf(f, s) == [k \in DOMAIN s |-> f[s[k]]]

LEMMA MapIs ==
  ASSUME NEW f, NEW s, Len(s) \in Nat, DOMAIN s = 1 .. Len(s)
  PROVE  /\ Len(MapOf(f, s)) = Len(s)
         /\ DOMAIN MapOf(f, s) = 1 .. Len(s)
         /\ \A k \in 1 .. Len(s) : MapOf(f, s)[k] = f[s[k]]
<1> DEFINE u == MapOf(f, s)
           R == {f[s[k]] : k \in 1 .. Len(s)}
<1>1. DOMAIN u = 1 .. Len(s) /\ u = [k \in 1 .. Len(s) |-> f[s[k]]] BY DEF MapOf
<1>2. u \in [1 .. Len(s) -> R] BY <1>1
<1> HIDE DEF u, R
<1>3. u \in Seq(R) BY <1>2, SeqDef
<1>4. Len(u) \in Nat /\ DOMAIN u = 1 .. Len(u) BY <1>3, LenProperties
<1>5. \A n, m \in Nat : 1 .. n = 1 .. m => n = m
  <2> SUFFICES ASSUME NEW n \in Nat, NEW m \in Nat, 1 .. n = 1 .. m PROVE n = m OBVIOUS
  <2>1. (n \in 1 .. m \/ n = 0) /\ (m \in 1 .. n \/ m = 0) OBVIOUS
  <2>2. n <= m /\ m <= n BY <2>1
  <2> QED BY <2>2
<1>6. Len(u) = Len(s) BY <1>1, <1>4, <1>5
<1>7. \A k \in 1 .. Len(s) : u[k] = f[s[k]] BY <1>1
<1>8. DOMAIN u = 1 .. Len(s) BY <1>1
<1> QED BY <1>6, <1>7, <1>8 DEF u

LEMMA MapTyped ==
  ASSUME NEW S, NEW R, NEW f \in [S -> R], NEW s \in Seq(S)
  PROVE  MapOf(f, s) \in Seq(R)
<1>1. DOMAIN s = 1 .. Len(s) /\ Len(s) \in Nat BY LenProperties
<1>2. \A k \in 1 .. Len(s) : s[k] \in S BY ElementOfSeq
<1> DEFINE u == MapOf(f, s)
<1>3. u \in [1 .. Len(s) -> R] BY <1>1, <1>2 DEF MapOf
<1> HIDE DEF u
<1>4. u \in Seq(R)
  <2> DEFINE n == Len(s)
  <2>1. n \in Nat /\ u \in [1 .. n -> R] BY <1>1, <1>3
  <2> HIDE DEF n
  <2> QED BY <2>1, SeqDef
<1> QED BY <1>4 DEF u

\* A sequence is its head before its tail.
LEMMA HeadFirst ==
  ASSUME NEW S, NEW s \in Seq(S), Len(s) # 0
  PROVE  /\ Head(s) \in S /\ Tail(s) \in Seq(S) /\ Len(Tail(s)) = Len(s) - 1
         /\ s = << Head(s) >> \o Tail(s)
<1>0. s # << >>
  <2>1. Len(<< >>) = 0 OBVIOUS
  <2> QED BY <2>1
<1> DEFINE a == Head(s)
           t == Tail(s)
           w == << a >> \o t
<1>1. a \in S /\ t \in Seq(S) /\ Len(t) = Len(s) - 1 /\ \A i \in 1 .. Len(t) : t[i] = s[i + 1]
  BY <1>0, HeadTailProperties
<1>2. a = s[1] BY <1>0
<1> HIDE DEF a, t
<1>3. Len(t) \in Nat /\ w \in Seq(S) /\ Len(w) = Len(t) + 1 /\ w[1] = a /\ \A k \in 1 .. Len(t) : w[k + 1] = t[k]
  BY <1>1, ConsIs
<1> HIDE DEF w
<1>4. \A k \in 1 .. Len(s) : s[k] = w[k]
  <2> TAKE k \in 1 .. Len(s)
  <2>1. CASE k = 1 BY <1>2, <1>3, <2>1
  <2>2. CASE k # 1
    <3>1. k - 1 \in 1 .. Len(t) /\ (k - 1) + 1 = k BY <1>1, <2>2
    <3> QED BY <1>1, <1>3, <3>1
  <2> QED BY <2>1, <2>2
<1>5. Len(s) = Len(w) BY <1>1, <1>3
<1>6. s = w BY <1>3, <1>4, <1>5, SeqEqual
<1> QED BY <1>1, <1>6 DEF a, t, w

LEMMA MapCons ==
  ASSUME NEW f, NEW S, NEW a \in S, NEW s \in Seq(S)
  PROVE  MapOf(f, << a >> \o s) = << f[a] >> \o MapOf(f, s)
<1> DEFINE R == {f[x] : x \in S}
           t == << a >> \o s
           u == MapOf(f, s)
           v == MapOf(f, t)
           w == << f[a] >> \o u
<1>1. Len(s) \in Nat /\ t \in Seq(S) /\ Len(t) = Len(s) + 1 /\ t[1] = a /\ \A k \in 1 .. Len(s) : t[k + 1] = s[k]
  BY ConsIs
<1> HIDE DEF t, w
<1>2. u \in Seq(R) /\ v \in Seq(R)
  <2>1. \A q \in Seq(S) : MapOf(f, q) \in Seq(R)
    <3> TAKE q \in Seq(S)
    <3>1. DOMAIN q = 1 .. Len(q) /\ Len(q) \in Nat BY LenProperties
    <3>2. \A k \in 1 .. Len(q) : q[k] \in S BY ElementOfSeq
    <3>3. MapOf(f, q) \in [1 .. Len(q) -> R] BY <3>1, <3>2 DEF MapOf
    <3> HIDE DEF R
    <3> QED BY <3>1, <3>3, SeqDef
  <2> HIDE DEF R
  <2> QED BY <1>1, <2>1
<1>3. DOMAIN s = 1 .. Len(s) /\ DOMAIN t = 1 .. Len(t) BY <1>1, LenProperties
<1>4. Len(u) = Len(s) /\ \A k \in 1 .. Len(s) : u[k] = f[s[k]] BY <1>1, <1>3, MapIs
<1>5. Len(v) = Len(s) + 1 /\ \A k \in 1 .. Len(s) + 1 : v[k] = f[t[k]] BY <1>1, <1>3, MapIs
<1> HIDE DEF u, v
<1>6. f[a] \in R OBVIOUS
<1> HIDE DEF R
<1>7. w \in Seq(R) /\ Len(w) = Len(s) + 1 /\ w[1] = f[a] /\ \A k \in 1 .. Len(s) : w[k + 1] = u[k]
  <2>1. Len(u) \in Nat /\ w \in Seq(R) /\ Len(w) = Len(u) + 1 /\ w[1] = f[a]
        /\ \A k \in 1 .. Len(u) : w[k + 1] = u[k]
    BY <1>2, <1>6, ConsIs DEF w
  <2> QED BY <1>4, <2>1
<1>8. \A k \in 1 .. Len(v) : v[k] = w[k]
  <2> TAKE k \in 1 .. Len(v)
  <2>0. k \in 1 .. Len(s) + 1 BY <1>5
  <2>1. CASE k = 1 BY <1>1, <1>5, <1>7, <2>0, <2>1
  <2>2. CASE k # 1
    <3>1. k - 1 \in 1 .. Len(s) /\ (k - 1) + 1 = k BY <1>1, <2>0, <2>2
    <3>2. v[k] = f[t[k]] /\ t[k] = s[k - 1] BY <1>1, <1>5, <2>0, <3>1
    <3>3. w[k] = u[k - 1] BY <1>7, <3>1
    <3> QED BY <1>4, <3>1, <3>2, <3>3
  <2> QED BY <2>1, <2>2
<1>9. v = w BY <1>2, <1>5, <1>7, <1>8, SeqEqual
<1> QED BY <1>9 DEF t, u, v, w

LEMMA AttributesTyped ==
  ASSUME NEW as \in Seq(Attribute)
  PROVE  WriteAttributes(as) \in Seq(Fields)
<1> DEFINE f == [a \in Attribute |-> WriteAttribute(a)]
           u == MapOf(f, as)
<1>1. f \in [Attribute -> Seq(Fields)] BY AttributeIs
<1>2. \A k \in DOMAIN as : as[k] \in Attribute
  <2>1. DOMAIN as = 1 .. Len(as) BY LenProperties
  <2> QED BY <2>1, ElementOfSeq
<1>3. u = [k \in DOMAIN as |-> WriteAttribute(as[k])] BY <1>2 DEF MapOf
<1> HIDE DEF f
<1>4. u \in Seq(Seq(Fields)) BY <1>1, MapTyped
<1> HIDE DEF u
<1>5. FlattenSeq(u) \in Seq(Fields) BY <1>4, FlattenTyped
<1> QED BY <1>3, <1>5 DEF WriteAttributes

\* An attribute before the others of its list.
LEMMA AttributesCons ==
  ASSUME NEW a \in Attribute, NEW as \in Seq(Attribute)
  PROVE  WriteAttributes(<< a >> \o as) = WriteAttribute(a) \o WriteAttributes(as)
<1> DEFINE f == [x \in Attribute |-> WriteAttribute(x)]
           M(s) == MapOf(f, s)
           b == << a >> \o as
<1>1. f \in [Attribute -> Seq(Fields)] /\ f[a] = WriteAttribute(a) BY AttributeIs
<1>2. \A s \in Seq(Attribute) : FlattenSeq(M(s)) = WriteAttributes(s)
  <2> TAKE s \in Seq(Attribute)
  <2>0. DOMAIN s = 1 .. Len(s) BY LenProperties
  <2>1. \A k \in DOMAIN s : s[k] \in Attribute BY <2>0, ElementOfSeq
  <2>2. M(s) = [k \in DOMAIN s |-> WriteAttribute(s[k])] BY <2>1 DEF MapOf
  <2> QED BY <2>2 DEF WriteAttributes
<1> HIDE DEF f
<1>3. M(b) = << f[a] >> \o M(as) BY MapCons
<1>4. M(as) \in Seq(Seq(Fields)) BY <1>1, MapTyped
<1>5. b \in Seq(Attribute) BY ConsIs
<1>6. f[a] \in Seq(Fields) BY <1>1
<1> HIDE DEF M, b
<1>7. FlattenSeq(M(as)) \in Seq(Fields) BY <1>4, FlattenTyped
<1>8. FlattenSeq(<< f[a] >> \o M(as)) = f[a] \o FlattenSeq(M(as)) BY <1>4, <1>6, <1>7, FlattenCons
<1>9. WriteAttributes(b) = WriteAttribute(a) \o WriteAttributes(as) BY <1>1, <1>2, <1>3, <1>5, <1>8
<1> QED BY <1>9 DEF b

AttributesAt(f, p, k) ==
  [j \in Nat |->
     IF k = 0 THEN Read(<< >>, j)
     ELSE UNION {UNION {{[r EXCEPT !.value = << [id |-> id.value, value |-> v.value] >> \o @] :
                           r \in f[k - 1][v.next]} :
                          v \in S24(p, id.next)} :
                   id \in S124(p, j)}]

AttributesFrom(p, n) == CHOOSE f : f = [k \in 0 .. n |-> AttributesAt(f, p, k)]

LEMMA AttributesExist ==
  ASSUME NEW p, NEW n \in Nat
  PROVE  \A k \in 0 .. n : AttributesFrom(p, n)[k] = AttributesAt(AttributesFrom(p, n), p, k)
<1> DEFINE Q(m, f) == f = [k \in 0 .. m |-> AttributesAt(f, p, k)]
           S == {m \in 0 .. n : \E f : Q(m, f)}
<1>1. ASSUME NEW m \in 0 .. n, \A k \in 0 .. m - 1 : k \in S PROVE m \in S
  <2>1. PICK f : \A k \in 0 .. m - 1 : f[k] = AttributesAt(f, p, k)
    <3>1. CASE m = 0
      <4>1. 0 .. m - 1 = {} BY <3>1
      <4> QED BY <4>1
    <3>2. CASE m # 0
      <4>1. m - 1 \in 0 .. m - 1 BY <3>2
      <4>2. PICK f : Q(m - 1, f) BY <1>1, <4>1
      <4> HIDE DEF S
      <4>3. \A k \in 0 .. m - 1 : f[k] = AttributesAt(f, p, k) BY <4>2
      <4> QED BY <4>3
    <3> QED BY <3>1, <3>2
  <2> DEFINE g == [k \in 0 .. m |-> AttributesAt(f, p, k)]
  <2>2. \A k \in 0 .. m : g[k] = AttributesAt(f, p, k) OBVIOUS
  <2>3. g = [k \in 0 .. m |-> g[k]] OBVIOUS
  <2> HIDE DEF g, S
  <2>4. \A k \in 0 .. m - 1 : g[k] = f[k] BY <2>1, <2>2
  <2>5. ASSUME NEW k \in 0 .. m PROVE AttributesAt(g, p, k) = AttributesAt(f, p, k)
    <3>1. CASE k = 0 BY <3>1 DEF AttributesAt
    <3>2. CASE k # 0
      <4>1. k - 1 \in 0 .. m - 1 BY <3>2
      <4>2. g[k - 1] = f[k - 1] BY <2>4, <4>1
      <4> QED BY <3>2, <4>2 DEF AttributesAt
    <3> QED BY <3>1, <3>2
  <2>6. Q(m, g) BY <2>2, <2>3, <2>5
  <2> HIDE DEF Q
  <2> QED BY <2>6 DEF S
<1>2. n \in S
  <2> HIDE DEF S
  <2>1. n \in 0 .. n OBVIOUS
  <2> QED BY <1>1, <2>1, FromBelow
<1>3. Q(n, AttributesFrom(p, n)) BY <1>2 DEF AttributesFrom
<1> QED BY <1>3

LEMMA AttributesFound ==
  ASSUME NEW p, NEW i \in Nat, NEW n \in Nat
  PROVE  Attributes(p, i, n) = AttributesFrom(p, n)[n][i]
BY DEF Attributes, AttributesFrom, AttributesAt

\* A list of n attributes, by induction on n.
LEMMA AttributesAre ==
  ASSUME NEW p \in Seq(Fields), NEW n \in Nat, NEW i \in 1 .. Len(p) + 1
  PROVE  /\ \A r \in Attributes(p, i, n) : /\ r.value \in Seq(Attribute) /\ Len(r.value) = n
                                           /\ r.next \in i .. (Len(p) + 1)
                                           /\ Fits(p, i, r.next, WriteAttributes(r.value))
         /\ \A as \in Seq(Attribute) :
              Len(as) = n /\ Has(p, i, WriteAttributes(as))
                => Attributes(p, i, n) = Read(as, i + Len(WriteAttributes(as)))
<1> DEFINE f == AttributesFrom(p, n)
           Places == 1 .. Len(p) + 1
           Sound(k) == \A j \in Places : \A r \in f[k][j] :
                         /\ r.value \in Seq(Attribute) /\ Len(r.value) = k
                         /\ r = [value |-> r.value, next |-> r.next]
                         /\ r.next \in j .. (Len(p) + 1)
                         /\ Fits(p, j, r.next, WriteAttributes(r.value))
           Again(k) == \A j \in Places, as \in Seq(Attribute) :
                         Len(as) = k /\ Has(p, j, WriteAttributes(as))
                           => f[k][j] = Read(as, j + Len(WriteAttributes(as)))
           T == {k \in 0 .. n : Sound(k) /\ Again(k)}
           With(r, id, v) == [r EXCEPT !.value = << [id |-> id.value, value |-> v.value] >> \o @]
<1>0. p \in Seq(Nat) /\ Len(p) \in Nat BY FieldCells
<1>1. \A k \in 0 .. n, j \in Nat :
        f[k][j] = IF k = 0 THEN Read(<< >>, j)
                  ELSE UNION {UNION {{With(r, id, v) : r \in f[k - 1][v.next]} : v \in S24(p, id.next)} :
                                id \in S124(p, j)}
  <2>1. \A k \in 0 .. n : f[k] = AttributesAt(f, p, k) BY AttributesExist
  <2> HIDE DEF f, With
  <2>2. \A k, j : j \in Nat =>
          AttributesAt(f, p, k)[j]
            = IF k = 0 THEN Read(<< >>, j)
              ELSE UNION {UNION {{With(r, id, v) : r \in f[k - 1][v.next]} : v \in S24(p, id.next)} :
                            id \in S124(p, j)}
    BY DEF AttributesAt, With
  <2> QED BY <2>1, <2>2
<1> HIDE DEF f
<1>2. WriteAttributes(<< >>) = << >> BY DEF WriteAttributes, FlattenSeq
<1>3. Places \subseteq Nat \ {0} BY <1>0
<1>4. ASSUME NEW k \in 0 .. n, \A l \in 0 .. k - 1 : l \in T PROVE Sound(k) /\ Again(k)
  <2>1. CASE k = 0
    <3>1. \A j \in Places : f[k][j] = {[value |-> << >>, next |-> j]} BY <1>1, <1>3, <2>1 DEF Read
    <3>2. Sound(k)
      <4> SUFFICES ASSUME NEW j \in Places, NEW r \in f[k][j]
                   PROVE  /\ r.value \in Seq(Attribute) /\ Len(r.value) = k
                          /\ r = [value |-> r.value, next |-> r.next]
                          /\ r.next \in j .. (Len(p) + 1)
                          /\ Fits(p, j, r.next, WriteAttributes(r.value))
        OBVIOUS
      <4>1. r = [value |-> << >>, next |-> j] BY <3>1
      <4>2. Fits(p, j, j, << >>) BY <1>0, HasNone
      <4>3. << >> \in Seq(Attribute) /\ Len(<< >>) = 0 OBVIOUS
      <4>4. j \in j .. (Len(p) + 1) BY <1>0
      <4> QED BY <1>2, <2>1, <4>1, <4>2, <4>3, <4>4
    <3>3. Again(k)
      <4> SUFFICES ASSUME NEW j \in Places, NEW as \in Seq(Attribute), Len(as) = k
                   PROVE  f[k][j] = Read(as, j + Len(WriteAttributes(as)))
        OBVIOUS
      <4>1. as = << >> BY <2>1, EmptySeq
      <4>2. j + Len(<< >>) = j BY <1>3
      <4> QED BY <1>2, <3>1, <4>1, <4>2 DEF Read
    <3> QED BY <3>2, <3>3
  <2>2. CASE k # 0
    <3>1. k - 1 \in 0 .. k - 1 /\ k - 1 \in T BY <1>4, <2>2
    <3>2. Sound(k - 1) /\ Again(k - 1) BY <3>1
    <3>3. \A j \in Places :
            f[k][j] = UNION {UNION {{With(r, id, v) : r \in f[k - 1][v.next]} : v \in S24(p, id.next)} :
                               id \in S124(p, j)}
      BY <1>1, <1>3, <2>2
    <3>4. Sound(k)
      <4> SUFFICES ASSUME NEW j \in Places, NEW r \in f[k][j]
                   PROVE  /\ r.value \in Seq(Attribute) /\ Len(r.value) = k
                          /\ r = [value |-> r.value, next |-> r.next]
                          /\ r.next \in j .. (Len(p) + 1)
                          /\ Fits(p, j, r.next, WriteAttributes(r.value))
        OBVIOUS
      <4>1. PICK id \in S124(p, j) : \E v \in S24(p, id.next) : \E q \in f[k - 1][v.next] : r = With(q, id, v)
        <5> HIDE DEF With
        <5> QED BY <3>3
      <4>2. PICK v \in S24(p, id.next) : \E q \in f[k - 1][v.next] : r = With(q, id, v) BY <4>1
      <4>3. PICK q \in f[k - 1][v.next] : r = With(q, id, v) BY <4>2
      <4>4. /\ id.value \in Signeds /\ id.next \in (j + 1) .. (Len(p) + 1)
            /\ Fits(p, j, id.next, WriteS124(id.value))
        BY <1>3, S124Is
      <4>5. id.next \in Nat \ {0} /\ j \in Nat \ {0} /\ id.next \in Places BY <1>0, <1>3, <4>4
      <4>6. /\ v.value \in Signeds /\ v.next \in (id.next + 1) .. (Len(p) + 1)
            /\ Fits(p, id.next, v.next, WriteS24(v.value))
        BY <4>5, S24Is
      <4>7. v.next \in Places /\ v.next \in Nat BY <1>0, <4>5, <4>6
      <4>8. /\ q.value \in Seq(Attribute) /\ Len(q.value) = k - 1
            /\ q = [value |-> q.value, next |-> q.next]
            /\ q.next \in v.next .. (Len(p) + 1)
            /\ Fits(p, v.next, q.next, WriteAttributes(q.value))
        BY <3>2, <4>7
      <4> DEFINE a == [id |-> id.value, value |-> v.value]
      <4>9. a \in Attribute /\ a.id = id.value /\ a.value = v.value BY <4>4, <4>6 DEF Attribute
      <4>10. r = [q EXCEPT !.value = << a >> \o @] BY <4>3
      <4> HIDE DEF a, With, Sound, Again
      <4>11. r.value = << a >> \o q.value /\ r.next = q.next /\ r = [value |-> r.value, next |-> r.next]
        BY <4>8, <4>10
      <4>12. /\ r.value \in Seq(Attribute) /\ Len(r.value) = k
        <5>1. << a >> \o q.value \in Seq(Attribute) /\ Len(<< a >> \o q.value) = Len(q.value) + 1
          BY <4>8, <4>9, ConsIs
        <5> QED BY <4>8, <4>11, <5>1
      <4>13. WriteAttributes(r.value) = WriteAttribute(a) \o WriteAttributes(q.value)
        BY <4>8, <4>9, <4>11, AttributesCons
      <4>14. q.next \in Nat /\ r.next \in j .. (Len(p) + 1) BY <1>0, <4>4, <4>5, <4>6, <4>8, <4>11
      <4>15. Fits(p, j, v.next, WriteAttribute(a))
        <5>1. /\ WriteS124(id.value) \in Seq(Nat) /\ WriteS24(v.value) \in Seq(Nat)
              /\ WriteAttribute(a) = WriteS124(id.value) \o WriteS24(v.value)
          BY <4>4, <4>6, <4>9, WritesAre, FieldCells DEF WriteAttribute
        <5> QED BY <1>0, <4>4, <4>5, <4>6, <4>7, <5>1, FitsJoin
      <4>16. Fits(p, j, q.next, WriteAttributes(r.value))
        <5>1. WriteAttribute(a) \in Seq(Nat) /\ WriteAttributes(q.value) \in Seq(Nat)
          BY <4>8, <4>9, AttributeIs, AttributesTyped, FieldCells
        <5> QED BY <1>0, <4>5, <4>7, <4>8, <4>13, <4>14, <4>15, <5>1, FitsJoin
      <4> QED BY <4>11, <4>12, <4>14, <4>16
    <3>5. Again(k)
      <4> SUFFICES ASSUME NEW j \in Places, NEW as \in Seq(Attribute), Len(as) = k,
                          Has(p, j, WriteAttributes(as))
                   PROVE  f[k][j] = Read(as, j + Len(WriteAttributes(as)))
        OBVIOUS
      <4>0. Len(as) # 0 BY <2>2
      <4> DEFINE a == Head(as)
                 t == Tail(as)
      <4>1. a \in Attribute /\ t \in Seq(Attribute) /\ Len(t) = k - 1 /\ as = << a >> \o t
        BY <4>0, HeadFirst
      <4> HIDE DEF a, t, With, Sound
      <4> DEFINE x == WriteS124(a.id)
                 y == WriteS24(a.value)
                 z == WriteAttributes(t)
                 j1 == j + Len(x)
                 j2 == j1 + Len(y)
                 j3 == j2 + Len(z)
      <4>2. a.id \in Signeds /\ a.value \in Signeds /\ a = [id |-> a.id, value |-> a.value]
        BY <4>1 DEF Attribute
      <4>3. x \in Seq(Nat) /\ y \in Seq(Nat) /\ z \in Seq(Nat) BY <4>1, <4>2, WritesAre, AttributesTyped, FieldCells
      <4>4. WriteAttributes(as) = (x \o y) \o z BY <4>1, AttributesCons DEF WriteAttribute
      <4>5. j \in Nat \ {0} BY <1>3
      <4>6. x \o y \in Seq(Nat) /\ Len(x \o y) = Len(x) + Len(y) /\ Len((x \o y) \o z) = (Len(x) + Len(y)) + Len(z)
            /\ Len(x) \in Nat /\ Len(y) \in Nat /\ Len(z) \in Nat
        BY <4>3, ConcatProperties
      <4> HIDE DEF x, y, z
      <4>7. Has(p, j, x \o y) /\ Has(p, j + (Len(x) + Len(y)), z)
        <5> DEFINE v == x \o y
        <5>0. Has(p, j, v \o z) /\ v \in Seq(Nat) BY <4>4, <4>6
        <5> HIDE DEF v
        <5>a. Has(p, j, v) /\ Has(p, j + Len(v), z) BY <1>0, <4>3, <4>5, <5>0, HasJoin
        <5>1. Has(p, j, x \o y) /\ Has(p, j + Len(x \o y), z) BY <5>a DEF v
        <5> QED BY <4>6, <5>1
      <4>8. Has(p, j, x) /\ Has(p, j1, y) BY <1>0, <4>3, <4>5, <4>7, HasJoin
      <4>9. j + (Len(x) + Len(y)) = j2 /\ j + ((Len(x) + Len(y)) + Len(z)) = j3 /\ j1 \in Nat \ {0} /\ j2 \in Nat \ {0}
        BY <4>5, <4>6
      <4>10. Has(p, j2, z) BY <4>7, <4>9
      <4>11. j2 \in Places BY <1>0, <4>6, <4>9, <4>10 DEF Has
      <4>12. S124(p, j) = {[value |-> a.id, next |-> j1]} BY <4>2, <4>5, <4>8, S124Is DEF x, Read
      <4>13. S24(p, j1) = {[value |-> a.value, next |-> j2]} BY <4>2, <4>8, <4>9, S24Is DEF y, Read
      <4>14. f[k - 1][j2] = {[value |-> t, next |-> j3]} BY <3>2, <4>1, <4>10, <4>11 DEF z, Read
      <4> HIDE DEF j1, j2, j3, Again
      <4>15. f[k][j] = {With([value |-> t, next |-> j3], [value |-> a.id, next |-> j1], [value |-> a.value, next |-> j2])}
        <5> DEFINE id == [value |-> a.id, next |-> j1]
                   v == [value |-> a.value, next |-> j2]
                   q == [value |-> t, next |-> j3]
        <5>1. id.next = j1 /\ v.next = j2 OBVIOUS
        <5>2. S124(p, j) = {id} /\ S24(p, id.next) = {v} /\ f[k - 1][v.next] = {q} BY <4>12, <4>13, <4>14, <5>1
        <5> HIDE DEF id, v, q
        <5>3. f[k][j] = {With(q, id, v)} BY <3>3, <5>2
        <5> QED BY <5>3 DEF id, v, q
      <4>16. With([value |-> t, next |-> j3], [value |-> a.id, next |-> j1], [value |-> a.value, next |-> j2])
               = [value |-> << a >> \o t, next |-> j3]
        <5> DEFINE id == [value |-> a.id, next |-> j1]
                   v == [value |-> a.value, next |-> j2]
                   q == [value |-> t, next |-> j3]
        <5>1. id.value = a.id /\ v.value = a.value OBVIOUS
        <5>2. q.value = t /\ q.next = j3 /\ q = [value |-> q.value, next |-> q.next] OBVIOUS
        <5>3. With(q, id, v) = [q EXCEPT !.value = << a >> \o @]
          <6> HIDE DEF id, v, q
          <6>1. [id |-> id.value, value |-> v.value] = a BY <4>2, <5>1
          <6> QED BY <6>1 DEF With
        <5> HIDE DEF q, id, v
        <5>4. [q EXCEPT !.value = << a >> \o @] = [value |-> << a >> \o q.value, next |-> q.next]
          <6> DEFINE v1 == q.value
                     n1 == q.next
                     w == << a >> \o v1
          <6>1. q = [value |-> v1, next |-> n1] BY <5>2
          <6> HIDE DEF v1, n1, w
          <6>2. [q EXCEPT !.value = w] = [value |-> w, next |-> n1] BY <6>1
          <6> QED BY <6>2 DEF v1, n1, w
        <5>5. With(q, id, v) = [value |-> << a >> \o t, next |-> j3] BY <5>2, <5>3, <5>4
        <5> QED BY <5>5 DEF q, id, v
      <4> QED BY <4>1, <4>4, <4>6, <4>9, <4>15, <4>16 DEF Read
    <3> QED BY <3>4, <3>5
  <2> QED BY <2>1, <2>2
<1>5. n \in T
  <2>1. \A k \in 0 .. n : (\A l \in 0 .. k - 1 : l \in T) => k \in T BY <1>4
  <2> HIDE DEF T
  <2>2. n \in 0 .. n OBVIOUS
  <2> QED BY <2>1, <2>2, FromBelow
<1>6. Attributes(p, i, n) = f[n][i] BY AttributesFound DEF f
<1> QED BY <1>5, <1>6

-----------------------------------------------------------------------------
\* The parts of an entry.

LEMMA CellsIs ==
  ASSUME NEW p \in Seq(Fields), NEW k \in Nat \ {0}, NEW n \in Nat
  PROVE  /\ k + n - 1 <= Len(p) => /\ SubSeq(p, k, k + n - 1) \in Seq(Fields)
                                   /\ Len(SubSeq(p, k, k + n - 1)) = n
                                   /\ Has(p, k, SubSeq(p, k, k + n - 1))
         /\ \A v \in Seq(Fields) :
              Len(v) = n /\ Has(p, k, v) => k + n - 1 <= Len(p) /\ SubSeq(p, k, k + n - 1) = v
<1> DEFINE e == k + n - 1
           s == SubSeq(p, k, e)
<1>0. Len(p) \in Nat /\ \A i \in 1 .. Len(p) : p[i] \in Fields BY FieldCells
<1>1. ASSUME e <= Len(p)
      PROVE  s \in Seq(Fields) /\ Len(s) = n /\ Has(p, k, s) /\ \A i \in 1 .. n : s[i] = p[k + i - 1]
  <2>1. k \in Int /\ e \in Int /\ \A i \in k .. e : p[i] \in Fields BY <1>0, <1>1
  <2>2. /\ s \in Seq(Fields) /\ Len(s) = IF k <= e THEN e - k + 1 ELSE 0
        /\ \A i \in 1 .. e - k + 1 : s[i] = p[k + i - 1]
    BY <2>1, SubSeqProperties
  <2> HIDE DEF s
  <2>3. Len(s) = n /\ e - k + 1 = n BY <2>2
  <2>4. Has(p, k, s)
    <3>1. k + n <= Len(p) + 1 BY <1>0, <1>1
    <3> QED BY <2>2, <2>3, <3>1 DEF Has
  <2> QED BY <2>2, <2>3, <2>4
<1>2. ASSUME NEW v \in Seq(Fields), Len(v) = n, Has(p, k, v) PROVE e <= Len(p) /\ s = v
  <2>1. k + n <= Len(p) + 1 /\ \A i \in 1 .. n : p[k + i - 1] = v[i] BY <1>2 DEF Has
  <2>2. e <= Len(p) BY <1>0, <2>1
  <2>3. s \in Seq(Fields) /\ Len(s) = n /\ \A i \in 1 .. n : s[i] = p[k + i - 1] BY <1>1, <2>2
  <2> HIDE DEF s
  <2>4. \A i \in 1 .. Len(s) : s[i] = v[i] BY <2>1, <2>3
  <2>5. s = v BY <1>2, <2>3, <2>4, SeqEqual
  <2> QED BY <2>2, <2>5
<1> QED BY <1>1, <1>2

WriteTag(raw, tag) == IF raw = MaxRawTag THEN WritePair(tag) ELSE << >>

LEMMA TagIs ==
  ASSUME NEW p \in Seq(Fields), Len(p) >= 3, NEW raw \in Fields
  PROVE  /\ \A t \in TagOf(p, raw) : /\ t.value \in Signeds /\ t.next \in 4 .. (Len(p) + 1)
                                     /\ raw # 7 => t.value = raw - 2
                                     /\ Fits(p, 4, t.next, WriteTag(raw, t.value))
         /\ \A v \in Signeds :
              (raw # 7 => v = raw - 2) /\ Has(p, 4, WriteTag(raw, v))
                => TagOf(p, raw) = Read(v, 4 + Len(WriteTag(raw, v)))
         /\ \A v \in Signeds : WriteTag(raw, v) \in Seq(Fields)
<1>0. p \in Seq(Nat) /\ Len(p) \in Nat /\ (\A k \in 1 .. Len(p) : p[k] \in Fields) BY FieldCells
<1>1. /\ TagOf(p, raw) = IF raw # 7 THEN Read(raw - 2, 3 + 1)
                         ELSE IF Len(p) < 3 + 2 THEN {}
                         ELSE Read(SignedPair(p[3 + 1], p[3 + 2]), 3 + 3)
      /\ \A v : WriteTag(raw, v) = IF raw = 7 THEN WritePair(v) ELSE << >>
      /\ 3 + 1 = 4 /\ 3 + 2 = 5 /\ 3 + 3 = 6
  BY DEF TagOf, WriteTag, MaxRawTag, TagShift, CommandSize
<1>2. \A v : WritePair(v) = << (v \div 8) % 8, v % 8 >> BY FieldsAre DEF WritePair
<1>3. CASE raw # 7
  <2>1. /\ TagOf(p, raw) = {[value |-> raw - 2, next |-> 4]}
        /\ \A v : WriteTag(raw, v) = << >>
    BY <1>1, <1>3 DEF Read
  <2>2. raw - 2 \in Signeds /\ 4 \in 4 .. (Len(p) + 1) BY <1>0 DEF Fields, Signeds
  <2>3. Fits(p, 4, 4, << >>)
    <3>1. 4 \in 1 .. Len(p) + 1 BY <1>0
    <3>2. \A j \in 1 .. Len(p) + 1 : Fits(p, j, j, << >>) BY <1>0, HasNone
    <3> QED BY <3>1, <3>2
  <2>4. \A t \in TagOf(p, raw) : /\ t.value \in Signeds /\ t.next \in 4 .. (Len(p) + 1)
                                 /\ raw # 7 => t.value = raw - 2
                                 /\ Fits(p, 4, t.next, WriteTag(raw, t.value))
    BY <2>1, <2>2, <2>3
  <2>5. Len(<< >>) = 0 /\ << >> \in Seq(Fields) /\ 4 + 0 = 4 OBVIOUS
  <2> QED BY <1>3, <2>1, <2>4, <2>5 DEF Read
<1>4. CASE raw = 7
  <2>1. \A v : WriteTag(raw, v) = << (v \div 8) % 8, v % 8 >> BY <1>1, <1>2, <1>4
  <2>2. \A v \in Signeds : /\ (v \div 8) % 8 \in Fields /\ v % 8 \in Fields
                           /\ SignedPair((v \div 8) % 8, v % 8) = v
    BY Digits
  <2>3. \A v \in Signeds : WriteTag(raw, v) \in Seq(Fields) /\ Len(WriteTag(raw, v)) = 2
    <3>1. \A a, b \in Fields : << a, b >> \in Seq(Fields) /\ Len(<< a, b >>) = 2 OBVIOUS
    <3> QED BY <2>1, <2>2, <3>1
  <2>4. ASSUME NEW t \in TagOf(p, raw)
        PROVE  /\ t.value \in Signeds /\ t.next \in 4 .. (Len(p) + 1)
               /\ raw # 7 => t.value = raw - 2
               /\ Fits(p, 4, t.next, WriteTag(raw, t.value))
    <3>1. Len(p) >= 5 /\ t = [value |-> SignedPair(p[4], p[5]), next |-> 6] BY <1>0, <1>1, <1>4 DEF Read
    <3> DEFINE a == p[4]
               b == p[5]
               v == SignedPair(a, b)
    <3>2. a \in Fields /\ b \in Fields BY <1>0, <3>1
    <3>3. v \in Signeds /\ (v \div 8) % 8 = a /\ v % 8 = b BY <3>2, Digits
    <3>4. t.value = v /\ t.next = 6 BY <3>1
    <3> HIDE DEF v
    <3>5. WriteTag(raw, v) = << a, b >> BY <2>1, <3>3
    <3>6. Has(p, 4, << a, b >>)
      <4>1. \A j \in Nat \ {0} : \A x, y : j + 1 <= Len(p) /\ p[j] = x /\ p[j + 1] = y => Has(p, j, << x, y >>)
        BY <1>0, HasTwo
      <4>2. 4 + 1 <= Len(p) /\ p[4] = a /\ p[4 + 1] = b /\ 4 \in Nat \ {0} BY <3>1
      <4> QED BY <4>1, <4>2, Zenon
    <3>7. Fits(p, 4, 6, << a, b >>)
      <4> DEFINE w == << a, b >>
      <4>1. Len(w) = 2 OBVIOUS
      <4>2. Has(p, 4, w) BY <3>6
      <4> HIDE DEF w
      <4>3. Fits(p, 4, 6, w) BY <4>1, <4>2 DEF Fits
      <4> QED BY <4>3 DEF w
    <3>8. 6 \in 4 .. (Len(p) + 1) BY <1>0, <3>1
    <3> QED BY <1>4, <3>3, <3>4, <3>5, <3>7, <3>8
  <2>5. ASSUME NEW v \in Signeds, Has(p, 4, WriteTag(raw, v))
        PROVE  TagOf(p, raw) = Read(v, 4 + Len(WriteTag(raw, v)))
    <3> DEFINE a == (v \div 8) % 8
               b == v % 8
    <3>1. Has(p, 4, << a, b >>) BY <2>1, <2>5
    <3>2. SignedPair(a, b) = v BY <2>2
    <3> HIDE DEF a, b
    <3>3. \A j \in Nat \ {0} : \A x, y : Has(p, j, << x, y >>) => j + 1 <= Len(p) /\ p[j] = x /\ p[j + 1] = y
      BY <1>0, HasTwo
    <3>4. 4 \in Nat \ {0} /\ 4 + 1 = 5 OBVIOUS
    <3>5. 4 + 1 <= Len(p) /\ p[4] = a /\ p[4 + 1] = b BY <3>1, <3>3, <3>4, Zenon
    <3>6. ~(Len(p) < 3 + 2) BY <1>0, <3>5
    <3>7. TagOf(p, raw) = Read(SignedPair(p[4], p[5]), 6) BY <1>1, <1>4, <3>6
    <3>8. 4 + Len(WriteTag(raw, v)) = 6
      <4>1. Len(WriteTag(raw, v)) = 2 /\ 4 + 2 = 6 BY <2>3
      <4> QED BY <4>1
    <3> QED BY <3>2, <3>4, <3>5, <3>7, <3>8
  <2> QED BY <2>3, <2>4, <2>5
<1> QED BY <1>3, <1>4

WriteList(as) == IF as = << >> THEN << >> ELSE WriteU124(Len(as)) \o WriteAttributes(as)

\* A list of attributes.  An empty one need not be written at all.
LEMMA ListIsRead ==
  ASSUME NEW p \in Seq(Fields), NEW i \in 1 .. Len(p) + 1, NEW listed \in BOOLEAN
  PROVE  /\ \A a \in AttributesOf(p, i, listed) :
              /\ a.value \in Seq(Attribute) /\ Len(a.value) \in Unsigneds
              /\ a.next \in i .. (Len(p) + 1)
              /\ Fits(p, i, a.next, WriteList(a.value))
              /\ ~listed => a.value = << >>
              /\ listed => i < a.next
         /\ \A as \in Seq(Attribute) :
              Len(as) \in Unsigneds /\ Has(p, i, WriteList(as)) /\ listed = (as # << >>)
                => AttributesOf(p, i, listed) = Read(as, i + Len(WriteList(as)))
         /\ \A as \in Seq(Attribute) : Len(as) \in Unsigneds => WriteList(as) \in Seq(Fields)
<1>0. p \in Seq(Nat) /\ Len(p) \in Nat /\ i \in Nat \ {0} BY FieldCells
<1>1. AttributesOf(p, i, listed)
        = IF ~listed THEN Read(<< >>, i) ELSE UNION {Attributes(p, n.next, n.value) : n \in U124(p, i)}
  BY DEF AttributesOf
<1>2. << >> \in Seq(Attribute) /\ << >> \in Seq(Fields) /\ Len(<< >>) = 0 /\ WriteList(<< >>) = << >> /\ 0 \in Unsigneds
      /\ i + 0 = i
  BY <1>0 DEF WriteList, Unsigneds
<1>3. ASSUME NEW as \in Seq(Attribute), Len(as) \in Unsigneds PROVE WriteList(as) \in Seq(Fields)
  <2>1. WriteU124(Len(as)) \in Seq(Fields) /\ WriteAttributes(as) \in Seq(Fields)
    BY <1>3, WritesAre, AttributesTyped
  <2>2. WriteU124(Len(as)) \o WriteAttributes(as) \in Seq(Fields) BY <2>1, ConcatProperties
  <2> QED BY <1>2, <2>2 DEF WriteList
<1>4. CASE ~listed
  <2>1. AttributesOf(p, i, listed) = {[value |-> << >>, next |-> i]} BY <1>1, <1>4 DEF Read
  <2>2. Fits(p, i, i, << >>) BY <1>0, HasNone
  <2>3. i \in i .. (Len(p) + 1) BY <1>0
  <2>4. ASSUME NEW a \in AttributesOf(p, i, listed)
        PROVE  /\ a.value \in Seq(Attribute) /\ Len(a.value) \in Unsigneds
               /\ a.next \in i .. (Len(p) + 1)
               /\ Fits(p, i, a.next, WriteList(a.value))
               /\ ~listed => a.value = << >>
               /\ listed => i < a.next
    <3>1. a.value = << >> /\ a.next = i BY <2>1
    <3> QED BY <1>2, <1>4, <2>2, <2>3, <3>1
  <2>5. ASSUME NEW as \in Seq(Attribute), listed = (as # << >>)
        PROVE  AttributesOf(p, i, listed) = Read(as, i + Len(WriteList(as)))
    <3>1. as = << >> BY <1>4, <2>5
    <3>2. i + Len(WriteList(as)) = i BY <1>2, <3>1
    <3> QED BY <2>1, <3>1, <3>2 DEF Read
  <2> QED BY <1>3, <2>4, <2>5
<1>5. CASE listed
  <2>1. AttributesOf(p, i, listed) = UNION {Attributes(p, n.next, n.value) : n \in U124(p, i)} BY <1>1, <1>5
  <2>2. ASSUME NEW a \in AttributesOf(p, i, listed)
        PROVE  /\ a.value \in Seq(Attribute) /\ Len(a.value) \in Unsigneds
               /\ a.next \in i .. (Len(p) + 1)
               /\ Fits(p, i, a.next, WriteList(a.value))
               /\ i < a.next
    <3>1. PICK n \in U124(p, i) : a \in Attributes(p, n.next, n.value) BY <2>1
    <3>2. n.value \in Unsigneds /\ n.next \in (i + 1) .. (Len(p) + 1) /\ Fits(p, i, n.next, WriteU124(n.value))
      BY <1>0, U124Is
    <3>3. n.value \in Nat /\ n.next \in 1 .. Len(p) + 1 /\ n.next \in Nat
      <4>0. Unsigneds \subseteq Nat BY DEF Unsigneds
      <4>1. n.value \in Nat BY <3>2, <4>0, Zenon
      <4>a. \A m : m \in (i + 1) .. (Len(p) + 1) => m \in 1 .. Len(p) + 1 /\ m \in Nat BY <1>0
      <4>2. n.next \in 1 .. Len(p) + 1 /\ n.next \in Nat BY <3>2, <4>a
      <4> QED BY <4>1, <4>2
    <3>4. /\ a.value \in Seq(Attribute) /\ Len(a.value) = n.value
          /\ a.next \in n.next .. (Len(p) + 1)
          /\ Fits(p, n.next, a.next, WriteAttributes(a.value))
      BY <3>1, <3>3, AttributesAre
    <3>5. a.next \in i .. (Len(p) + 1) /\ i < a.next /\ a.next \in Nat BY <1>0, <3>2, <3>3, <3>4
    <3>6. Fits(p, i, a.next, WriteList(a.value))
      <4>1. CASE a.value = << >>
        <5>1. i <= a.next /\ i # a.next BY <1>0, <3>5
        <5>2. Fits(p, i, a.next, << >>) BY <1>2, <5>1 DEF Fits
        <5> QED BY <1>2, <4>1, <5>2
      <4>2. CASE a.value # << >>
        <5>1. WriteList(a.value) = WriteU124(n.value) \o WriteAttributes(a.value) BY <3>4, <4>2 DEF WriteList
        <5>2. WriteU124(n.value) \in Seq(Nat) /\ WriteAttributes(a.value) \in Seq(Nat)
          BY <3>2, <3>4, WritesAre, AttributesTyped, FieldCells
        <5>3. Fits(p, i, a.next, WriteU124(n.value) \o WriteAttributes(a.value))
          BY <1>0, <3>2, <3>3, <3>4, <3>5, <5>2, FitsJoin
        <5> QED BY <5>1, <5>3
      <4> QED BY <4>1, <4>2
    <3> QED BY <3>2, <3>4, <3>5, <3>6
  <2>3. ASSUME NEW as \in Seq(Attribute), Len(as) \in Unsigneds, Has(p, i, WriteList(as)), as # << >>
        PROVE  AttributesOf(p, i, listed) = Read(as, i + Len(WriteList(as)))
    <3> DEFINE x == WriteU124(Len(as))
               y == WriteAttributes(as)
               j == i + Len(x)
    <3>1. WriteList(as) = x \o y BY <2>3 DEF WriteList
    <3>2. x \in Seq(Nat) /\ y \in Seq(Nat) BY <2>3, WritesAre, AttributesTyped, FieldCells
    <3> HIDE DEF x, y
    <3>3. Len(x) \in Nat /\ Len(y) \in Nat /\ Len(x \o y) = Len(x) + Len(y) BY <3>2, ConcatProperties
    <3>4. Has(p, i, x \o y) BY <2>3, <3>1
    <3>5. Has(p, i, x) /\ Has(p, j, y) BY <1>0, <3>2, <3>4, HasJoin
    <3>6. j \in Nat /\ j \in 1 .. Len(p) + 1 /\ i + Len(WriteList(as)) = j + Len(y)
      <4>1. j <= Len(p) + 1 BY <3>5 DEF Has
      <4> QED BY <1>0, <3>1, <3>3, <4>1
    <3>7. U124(p, i) = {[value |-> Len(as), next |-> j]} BY <1>0, <2>3, <3>5, U124Is DEF x, Read
    <3> HIDE DEF j
    <3>8. Attributes(p, j, Len(as)) = Read(as, j + Len(y))
      <4>1. Len(as) \in Nat BY LenProperties
      <4>2. Has(p, j, WriteAttributes(as)) BY <3>5 DEF y
      <4> DEFINE m == Len(as)
      <4>a. m \in Nat /\ Len(as) = m BY <4>1
      <4> HIDE DEF m
      <4>b. \A bs \in Seq(Attribute) :
              Len(bs) = m /\ Has(p, j, WriteAttributes(bs))
                => Attributes(p, j, m) = Read(bs, j + Len(WriteAttributes(bs)))
        BY <3>6, <4>a, AttributesAre
      <4>3. Attributes(p, j, Len(as)) = Read(as, j + Len(WriteAttributes(as))) BY <4>2, <4>a, <4>b
      <4> QED BY <4>3 DEF y
    <3>9. AttributesOf(p, i, listed) = Attributes(p, j, Len(as))
      <4> DEFINE n == [value |-> Len(as), next |-> j]
      <4>1. n.value = Len(as) /\ n.next = j /\ U124(p, i) = {n} BY <3>7
      <4> HIDE DEF n
      <4> QED BY <2>1, <4>1
    <3> QED BY <3>6, <3>8, <3>9
  <2> QED BY <1>3, <1>5, <2>2, <2>3
<1> QED BY <1>4, <1>5

WriteLength(size, c) == IF size = VarLength THEN WriteU124(Len(c)) ELSE << >>

\* Content a size class can have.
Sized(size, c) ==
  /\ c \in Seq(Fields) /\ Len(c) \in Unsigneds
  /\ size \in {0, 7} => c = << >>
  /\ size \in 1 .. 4 => Len(c) = size
  /\ size # 5

LEMMA ContentReads ==
  ASSUME NEW p, NEW i, NEW size
  PROVE  LET Bytes(k, n) == IF k + n - 1 > Len(p) THEN {} ELSE Read(SubSeq(p, k, k + n - 1), k + n) IN
         /\ size \in {0, 7} => ContentOf(p, i, size) = Read(<< >>, i)
         /\ size \in 1 .. 4 => ContentOf(p, i, size) = Bytes(i, size)
         /\ size = 6 => ContentOf(p, i, size) = UNION {Bytes(n.next, n.value) : n \in U124(p, i)}
         /\ size = 5 => ContentOf(p, i, size) = {}
<1>1. BoolSizes = {0, 7} /\ FixedSizes = 1 .. 4 /\ VarLength = 6 BY DEF BoolSizes, FixedSizes, VarLength
<1>2. /\ size \in {0, 7} => size \notin 1 .. 4 /\ size # 6
      /\ size \in 1 .. 4 => size \notin {0, 7} /\ size # 6
      /\ size = 6 => size \notin {0, 7} /\ size \notin 1 .. 4
      /\ size = 5 => size \notin {0, 7} /\ size \notin 1 .. 4 /\ size # 6
  OBVIOUS
<1> DEFINE Bytes(k, n) == IF k + n - 1 > Len(p) THEN {} ELSE Read(SubSeq(p, k, k + n - 1), k + n)
<1>3. ContentOf(p, i, size) =
        CASE size \in BoolSizes -> Read(<< >>, i)
          [] size \in FixedSizes -> Bytes(i, size)
          [] size = VarLength -> UNION {Bytes(n.next, n.value) : n \in U124(p, i)}
          [] OTHER -> {}
  BY Zenon DEF ContentOf
<1> HIDE DEF Bytes
<1>4. /\ size \in {0, 7} => ContentOf(p, i, size) = Read(<< >>, i)
      /\ size \in 1 .. 4 => ContentOf(p, i, size) = Bytes(i, size)
      /\ size = 6 => ContentOf(p, i, size) = UNION {Bytes(n.next, n.value) : n \in U124(p, i)}
      /\ size = 5 => ContentOf(p, i, size) = {}
  BY <1>1, <1>2, <1>3, Zenon
<1> QED BY <1>4, Zenon DEF Bytes

LEMMA ContentIsRead ==
  ASSUME NEW p \in Seq(Fields), NEW i \in 1 .. Len(p) + 1, NEW size \in Fields
  PROVE  /\ \A c \in ContentOf(p, i, size) :
              /\ Sized(size, c.value) /\ c.next \in i .. (Len(p) + 1)
              /\ Fits(p, i, c.next, WriteLength(size, c.value) \o c.value)
         /\ \A v : Sized(size, v) /\ Has(p, i, WriteLength(size, v) \o v)
                     => ContentOf(p, i, size) = Read(v, i + Len(WriteLength(size, v) \o v))
         /\ \A v : Sized(size, v) => WriteLength(size, v) \in Seq(Fields) /\ WriteLength(size, v) \o v \in Seq(Fields)
<1> DEFINE Bytes(k, n) == IF k + n - 1 > Len(p) THEN {} ELSE Read(SubSeq(p, k, k + n - 1), k + n)
<1>0. p \in Seq(Nat) /\ Len(p) \in Nat /\ i \in Nat \ {0} BY FieldCells
<1>1. << >> \in Seq(Fields) /\ Len(<< >>) = 0 /\ 0 \in Unsigneds /\ << >> \o << >> = << >> BY DEF Unsigneds
<1>2. ASSUME NEW v, Sized(size, v)
      PROVE  WriteLength(size, v) \in Seq(Fields) /\ WriteLength(size, v) \o v \in Seq(Fields)
  <2>1. v \in Seq(Fields) /\ WriteU124(Len(v)) \in Seq(Fields) BY <1>2, WritesAre DEF Sized
  <2>2. WriteLength(size, v) \in Seq(Fields) BY <1>1, <2>1 DEF WriteLength
  <2> QED BY <2>1, <2>2, ConcatProperties
<1>3. ASSUME NEW k \in 1 .. Len(p) + 1, NEW n \in Nat
      PROVE  /\ \A c \in Bytes(k, n) : /\ c.value \in Seq(Fields) /\ Len(c.value) = n
                                       /\ c.next \in k .. (Len(p) + 1)
                                       /\ Fits(p, k, c.next, c.value)
             /\ \A v \in Seq(Fields) : Len(v) = n /\ Has(p, k, v) => Bytes(k, n) = Read(v, k + n)
  <2>0. k \in Nat \ {0} BY <1>0
  <2>1. ASSUME NEW c \in Bytes(k, n)
        PROVE  /\ c.value \in Seq(Fields) /\ Len(c.value) = n
               /\ c.next \in k .. (Len(p) + 1)
               /\ Fits(p, k, c.next, c.value)
    <3> DEFINE w == SubSeq(p, k, k + n - 1)
    <3>1. ~(k + n - 1 > Len(p)) /\ c = [value |-> w, next |-> k + n] BY DEF Read
    <3>2. k + n - 1 <= Len(p) BY <1>0, <2>0, <3>1
    <3>3. w \in Seq(Fields) /\ Len(w) = n /\ Has(p, k, w)
      <4>1. \A x \in Nat \ {0}, y \in Nat :
              x + y - 1 <= Len(p) => /\ SubSeq(p, x, x + y - 1) \in Seq(Fields)
                                     /\ Len(SubSeq(p, x, x + y - 1)) = y
                                     /\ Has(p, x, SubSeq(p, x, x + y - 1))
        BY CellsIs
      <4> QED BY <2>0, <3>2, <4>1, Zenon
    <3>4. c.value = w /\ c.next = k + n BY <3>1
    <3> HIDE DEF w
    <3>5. k + n \in k .. (Len(p) + 1) /\ k + n <= k + n BY <1>0, <2>0, <3>2
    <3>6. Fits(p, k, k + n, w) BY <3>3, <3>5 DEF Fits
    <3> QED BY <3>3, <3>4, <3>5, <3>6
  <2>2. ASSUME NEW v \in Seq(Fields), Len(v) = n, Has(p, k, v) PROVE Bytes(k, n) = Read(v, k + n)
    <3>1. k + n - 1 <= Len(p) /\ SubSeq(p, k, k + n - 1) = v BY <2>0, <2>2, CellsIs
    <3>2. ~(k + n - 1 > Len(p)) BY <1>0, <2>0, <3>1
    <3> QED BY <3>1, <3>2
  <2> QED BY <2>1, <2>2
<1>4. /\ size \in {0, 7} => ContentOf(p, i, size) = Read(<< >>, i)
      /\ size \in 1 .. 4 => ContentOf(p, i, size) = Bytes(i, size)
      /\ size = 6 => ContentOf(p, i, size) = UNION {Bytes(n.next, n.value) : n \in U124(p, i)}
      /\ size = 5 => ContentOf(p, i, size) = {}
  BY ContentReads
<1> HIDE DEF Bytes
<1>5. size \in {0, 7} \/ size \in 1 .. 4 \/ size = 6 \/ size = 5 BY DEF Fields
<1>6. \A v : WriteLength(size, v) = IF size = 6 THEN WriteU124(Len(v)) ELSE << >> BY DEF WriteLength, VarLength
<1>7. \A v \in Seq(Fields) : << >> \o v = v BY ConcatEmptySeq
<1>8. CASE size \in {0, 7}
  <2>0. size # 6 /\ size # 5 /\ size \notin 1 .. 4 BY <1>8
  <2>1. ContentOf(p, i, size) = {[value |-> << >>, next |-> i]} BY <1>4, <1>8 DEF Read
  <2>2. Fits(p, i, i, << >>) BY <1>0, HasNone
  <2>3. \A v : WriteLength(size, v) = << >> BY <1>6, <2>0
  <2>4. i \in i .. (Len(p) + 1) BY <1>0
  <2>5. Sized(size, << >>) BY <1>1, <1>8, <2>0 DEF Sized
  <2>6. ASSUME NEW c \in ContentOf(p, i, size)
        PROVE  /\ Sized(size, c.value) /\ c.next \in i .. (Len(p) + 1)
               /\ Fits(p, i, c.next, WriteLength(size, c.value) \o c.value)
    <3>1. c.value = << >> /\ c.next = i BY <2>1
    <3>2. WriteLength(size, c.value) \o c.value = << >> BY <1>1, <2>3, <3>1
    <3> QED BY <2>2, <2>4, <2>5, <3>1, <3>2
  <2>7. ASSUME NEW v, Sized(size, v)
        PROVE  ContentOf(p, i, size) = Read(v, i + Len(WriteLength(size, v) \o v))
    <3>1. v = << >> BY <1>8, <2>7 DEF Sized
    <3>2. WriteLength(size, v) \o v = << >> BY <1>1, <2>3, <3>1
    <3>3. i + Len(WriteLength(size, v) \o v) = i BY <1>0, <1>1, <3>2
    <3> QED BY <2>1, <3>1, <3>3 DEF Read
  <2> QED BY <1>2, <2>6, <2>7
<1>9. CASE size \in 1 .. 4
  <2>0. size # 6 /\ size # 5 /\ size \notin {0, 7} /\ size \in Nat /\ size \in Unsigneds BY <1>9 DEF Unsigneds
  <2>1. ContentOf(p, i, size) = Bytes(i, size) BY <1>4, <1>9
  <2>3. \A v : WriteLength(size, v) = << >> BY <1>6, <2>0
  <2>6. ASSUME NEW c \in ContentOf(p, i, size)
        PROVE  /\ Sized(size, c.value) /\ c.next \in i .. (Len(p) + 1)
               /\ Fits(p, i, c.next, WriteLength(size, c.value) \o c.value)
    <3>1. /\ c.value \in Seq(Fields) /\ Len(c.value) = size
          /\ c.next \in i .. (Len(p) + 1)
          /\ Fits(p, i, c.next, c.value)
      BY <1>3, <2>0, <2>1
    <3>2. WriteLength(size, c.value) \o c.value = c.value BY <1>7, <2>3, <3>1
    <3>3. Sized(size, c.value) BY <1>9, <2>0, <3>1 DEF Sized
    <3> QED BY <3>1, <3>2, <3>3
  <2>7. ASSUME NEW v, Sized(size, v), Has(p, i, WriteLength(size, v) \o v)
        PROVE  ContentOf(p, i, size) = Read(v, i + Len(WriteLength(size, v) \o v))
    <3>1. v \in Seq(Fields) /\ Len(v) = size BY <1>9, <2>7 DEF Sized
    <3>2. WriteLength(size, v) \o v = v BY <1>7, <2>3, <3>1
    <3>3. Has(p, i, v) BY <2>7, <3>2
    <3>4. Bytes(i, size) = Read(v, i + size) BY <1>3, <2>0, <3>1, <3>3
    <3> QED BY <2>1, <3>1, <3>2, <3>4
  <2> QED BY <1>2, <2>6, <2>7
<1>10. CASE size = 6
  <2>0. size # 5 /\ size \notin {0, 7} /\ size \notin 1 .. 4 BY <1>10
  <2>1. ContentOf(p, i, size) = UNION {Bytes(n.next, n.value) : n \in U124(p, i)} BY <1>4, <1>10
  <2>3. \A v : WriteLength(size, v) = WriteU124(Len(v)) BY <1>6, <1>10
  <2>6. ASSUME NEW c \in ContentOf(p, i, size)
        PROVE  /\ Sized(size, c.value) /\ c.next \in i .. (Len(p) + 1)
               /\ Fits(p, i, c.next, WriteLength(size, c.value) \o c.value)
    <3>1. PICK n \in U124(p, i) : c \in Bytes(n.next, n.value) BY <2>1
    <3>2. n.value \in Unsigneds /\ n.next \in (i + 1) .. (Len(p) + 1) /\ Fits(p, i, n.next, WriteU124(n.value))
      BY <1>0, U124Is
    <3>3. n.value \in Nat /\ n.next \in 1 .. Len(p) + 1 /\ n.next \in Nat /\ i <= n.next
      <4>0. Unsigneds \subseteq Nat BY DEF Unsigneds
      <4>1. n.value \in Nat BY <3>2, <4>0, Zenon
      <4>2. \A m : m \in (i + 1) .. (Len(p) + 1) => m \in 1 .. Len(p) + 1 /\ m \in Nat /\ i <= m BY <1>0
      <4> QED BY <3>2, <4>1, <4>2
    <3>4. /\ c.value \in Seq(Fields) /\ Len(c.value) = n.value
          /\ c.next \in n.next .. (Len(p) + 1)
          /\ Fits(p, n.next, c.next, c.value)
      BY <1>3, <3>1, <3>3
    <3>5. c.next \in i .. (Len(p) + 1) /\ c.next \in Nat BY <1>0, <3>3, <3>4
    <3>6. Sized(size, c.value) BY <2>0, <3>2, <3>4 DEF Sized
    <3>7. WriteLength(size, c.value) = WriteU124(n.value) BY <2>3, <3>4
    <3>8. WriteU124(n.value) \in Seq(Nat) /\ c.value \in Seq(Nat) BY <3>2, <3>4, WritesAre, FieldCells
    <3>9. Fits(p, i, c.next, WriteU124(n.value) \o c.value) BY <1>0, <3>2, <3>3, <3>4, <3>5, <3>8, FitsJoin
    <3> QED BY <3>5, <3>6, <3>7, <3>9
  <2>7. ASSUME NEW v, Sized(size, v), Has(p, i, WriteLength(size, v) \o v)
        PROVE  ContentOf(p, i, size) = Read(v, i + Len(WriteLength(size, v) \o v))
    <3> DEFINE m == Len(v)
               x == WriteU124(m)
               j == i + Len(x)
    <3>1. v \in Seq(Fields) /\ m \in Unsigneds /\ m \in Nat /\ v \in Seq(Nat) /\ Len(v) = m
      BY <2>7, FieldCells DEF Sized
    <3> HIDE DEF m
    <3>2. x \in Seq(Nat) BY <3>1, WritesAre, FieldCells
    <3>3. WriteLength(size, v) = x BY <2>3 DEF m
    <3> HIDE DEF x
    <3>4. Has(p, i, x \o v) BY <2>7, <3>3
    <3>5. Has(p, i, x) /\ Has(p, j, v) BY <1>0, <3>1, <3>2, <3>4, HasJoin
    <3>6. Len(x) \in Nat /\ Len(x \o v) = Len(x) + m
      <4>1. \A y, z \in Seq(Nat) : Len(y) \in Nat /\ Len(y \o z) = Len(y) + Len(z) BY ConcatProperties
      <4> QED BY <3>1, <3>2, <4>1
    <3>7. j \in 1 .. Len(p) + 1
      <4>1. j + m <= Len(p) + 1 BY <3>1, <3>5 DEF Has
      <4> QED BY <1>0, <3>1, <3>6, <4>1
    <3>8. i + Len(x \o v) = j + m BY <1>0, <3>1, <3>6
    <3>9. U124(p, i) = {[value |-> m, next |-> j]} BY <1>0, <3>1, <3>5, U124Is DEF x, Read
    <3> HIDE DEF j
    <3>10. ContentOf(p, i, size) = Bytes(j, m)
      <4> DEFINE n == [value |-> m, next |-> j]
      <4>1. n.value = m /\ n.next = j /\ U124(p, i) = {n} BY <3>9
      <4> HIDE DEF n
      <4> QED BY <2>1, <4>1
    <3>11. Bytes(j, m) = Read(v, j + m) BY <1>3, <3>1, <3>5, <3>7
    <3> QED BY <3>3, <3>8, <3>10, <3>11
  <2> QED BY <1>2, <2>6, <2>7
<1>11. CASE size = 5
  <2>1. ContentOf(p, i, size) = {} BY <1>4, <1>11
  <2>2. \A v : ~Sized(size, v) BY <1>11 DEF Sized
  <2> QED BY <2>1, <2>2
<1> QED BY <1>5, <1>8, <1>9, <1>10, <1>11

-----------------------------------------------------------------------------
(***************************************************************************)
(* A whole entry.                                                          *)
(***************************************************************************)

\* What an entry is, as it is read.
Entry ==
  [size : Fields, scope : 0 .. 3, raw : Fields, tag : Signeds, attributes : Seq(Attribute),
   content : Seq(Fields), bytes : Nat]

Readable(e) ==
  /\ e \in Entry /\ Sized(e.size, e.content) /\ Len(e.attributes) \in Unsigneds
  /\ e.raw # 7 => e.tag = e.raw - 2

Command(e) == << e.size, IF e.attributes = << >> THEN e.scope ELSE 4 + e.scope, e.raw >>

\* The entry e, read from n bytes.
OfBytes(e, n) ==
  [size |-> e.size, scope |-> e.scope, raw |-> e.raw, tag |-> e.tag,
   attributes |-> e.attributes, content |-> e.content, bytes |-> n]

LEMMA CommandIs ==
  ASSUME NEW e, Readable(e)
  PROVE  /\ Command(e) \in Seq(Fields) /\ Len(Command(e)) = 3
         /\ WriteTag(e.raw, e.tag) \in Seq(Fields)
         /\ WriteList(e.attributes) \in Seq(Fields)
         /\ WriteLength(e.size, e.content) \in Seq(Fields) /\ e.content \in Seq(Fields)
<1>1. /\ e.size \in Fields /\ e.scope \in 0 .. 3 /\ e.raw \in Fields /\ e.tag \in Signeds
      /\ e.attributes \in Seq(Attribute) /\ e.content \in Seq(Fields)
  BY DEF Readable, Entry
<1>2. e.scope \in Fields /\ 4 + e.scope \in Fields BY <1>1 DEF Fields
<1>3. \A a, b, c \in Fields : << a, b, c >> \in Seq(Fields) /\ Len(<< a, b, c >>) = 3 OBVIOUS
<1>4. Command(e) \in Seq(Fields) /\ Len(Command(e)) = 3 BY <1>1, <1>2, <1>3 DEF Command
<1>5. << >> \in Seq(Fields) OBVIOUS
<1>6. WriteTag(e.raw, e.tag) \in Seq(Fields)
  <2>1. WritePair(e.tag) \in Seq(Fields)
    <3>1. WritePair(e.tag) = << (e.tag \div 8) % 8, e.tag % 8 >> BY FieldsAre DEF WritePair
    <3>2. (e.tag \div 8) % 8 \in Fields /\ e.tag % 8 \in Fields BY <1>1, Digits
    <3>3. \A a, b \in Fields : << a, b >> \in Seq(Fields) OBVIOUS
    <3> QED BY <3>1, <3>2, <3>3
  <2> QED BY <1>5, <2>1 DEF WriteTag
<1>7. WriteList(e.attributes) \in Seq(Fields)
  <2>1. Len(e.attributes) \in Unsigneds BY DEF Readable
  <2>2. WriteU124(Len(e.attributes)) \in Seq(Fields) /\ WriteAttributes(e.attributes) \in Seq(Fields)
    BY <1>1, <2>1, WritesAre, AttributesTyped
  <2>3. WriteU124(Len(e.attributes)) \o WriteAttributes(e.attributes) \in Seq(Fields) BY <2>2, ConcatProperties
  <2> QED BY <1>5, <2>3 DEF WriteList
<1>8. WriteLength(e.size, e.content) \in Seq(Fields)
  <2>1. Len(e.content) \in Unsigneds BY DEF Readable, Sized
  <2>2. WriteU124(Len(e.content)) \in Seq(Fields) BY <2>1, WritesAre
  <2> QED BY <1>5, <2>2 DEF WriteLength
<1> QED BY <1>1, <1>4, <1>6, <1>7, <1>8

\* The parts an entry is written in.
LEMMA EntryIsWritten ==
  ASSUME NEW e, Readable(e)
  PROVE  /\ WriteHeapEntry(e) = ((Command(e) \o WriteTag(e.raw, e.tag)) \o WriteList(e.attributes))
                                  \o (WriteLength(e.size, e.content) \o e.content)
         /\ WriteHeapEntry(e) \in Seq(Fields) /\ Len(WriteHeapEntry(e)) \in Nat /\ Len(WriteHeapEntry(e)) >= 3
<1> DEFINE c == Command(e)
           t == WriteTag(e.raw, e.tag)
           l == WriteList(e.attributes)
           n == WriteLength(e.size, e.content)
           b == e.content
<1>1. c \in Seq(Fields) /\ Len(c) = 3 /\ t \in Seq(Fields) /\ l \in Seq(Fields) /\ n \in Seq(Fields) /\ b \in Seq(Fields)
  BY CommandIs
<1>2. WriteHeapEntry(e) = (((c \o t) \o l) \o n) \o b
  BY Zenon DEF WriteHeapEntry, Command, WriteTag, WriteList, WriteLength, WriteAttributes, WriteAttribute, ScopeMod
<1> HIDE DEF c, t, l, n, b
<1>3. c \o t \in Seq(Fields) /\ Len(c \o t) \in Nat /\ Len(c \o t) >= 3
  <2>1. \A f, g \in Seq(Fields) : f \o g \in Seq(Fields) /\ Len(f \o g) = Len(f) + Len(g) /\ Len(g) \in Nat
    BY ConcatProperties
  <2>2. c \o t \in Seq(Fields) /\ Len(c \o t) = Len(c) + Len(t) /\ Len(t) \in Nat BY <1>1, <2>1, Zenon
  <2> QED BY <1>1, <2>2
<1> DEFINE x == c \o t
<1>4. x \o l \in Seq(Fields) /\ Len(x \o l) \in Nat /\ Len(x \o l) >= 3
  <2> HIDE DEF x
  <2>1. x \in Seq(Fields) /\ Len(x) \in Nat /\ Len(x) >= 3 BY <1>3 DEF x
  <2> QED BY <1>1, <2>1, ConcatProperties
<1> DEFINE y == x \o l
<1>5. (y \o n) \o b = y \o (n \o b)
  <2> HIDE DEF y
  <2>1. y \in Seq(Fields) BY <1>4 DEF y
  <2> QED BY <1>1, <2>1, ConcatAssociative
<1>6. y \o (n \o b) \in Seq(Fields) /\ Len(y \o (n \o b)) \in Nat /\ Len(y \o (n \o b)) >= 3
  <2> DEFINE z == n \o b
  <2>1. z \in Seq(Fields) BY <1>1, ConcatProperties
  <2>2. y \in Seq(Fields) /\ Len(y) >= 3 /\ Len(y) \in Nat BY <1>4
  <2> HIDE DEF y, z
  <2>3. y \o z \in Seq(Fields) /\ Len(y \o z) = Len(y) + Len(z) /\ Len(z) \in Nat BY <2>1, <2>2, ConcatProperties
  <2>4. y \o z \in Seq(Fields) /\ Len(y \o z) \in Nat /\ Len(y \o z) >= 3 BY <2>2, <2>3
  <2> QED BY <2>4 DEF z
<1>7. WriteHeapEntry(e) = y \o (n \o b) BY <1>2, <1>5
<1> QED BY <1>6, <1>7 DEF c, t, l, n, b

LEMMA ScopesAre ==
  /\ \A a \in Fields : a % 4 \in 0 .. 3 /\ (a >= 4 => a = 4 + (a % 4)) /\ (~(a >= 4) => a = a % 4)
  /\ \A s \in 0 .. 3 : /\ s % 4 = s /\ (4 + s) % 4 = s /\ ~(s >= 4) /\ 4 + s >= 4
BY DEF Fields

LEMMA DecodeIs ==
  ASSUME NEW p
  PROVE  /\ Len(p) < 3 => DecodeEntry(p) = {}
         /\ ~(Len(p) < 3) =>
              DecodeEntry(p) =
                UNION {UNION {
                  {[size |-> p[1], scope |-> p[2] % 4, raw |-> p[3], tag |-> t.value,
                    attributes |-> a.value, content |-> c.value, bytes |-> c.next - 1] :
                     c \in ContentOf(p, a.next, p[1])} :
                     a \in AttributesOf(p, t.next, p[2] >= 4)} :
                     t \in TagOf(p, p[3])}
BY Zenon DEF DecodeEntry, CommandSize, ScopeMod

\* An entry that is read fits its shortest form in the cells it was read from, and fills
\* them only with itself.
LEMMA EntryIsRead ==
  ASSUME NEW p \in Seq(Fields), NEW e \in DecodeEntry(p)
  PROVE  /\ Readable(e) /\ e = OfBytes(e, e.bytes)
         /\ e.bytes \in 3 .. Len(p) /\ Fits(p, 1, e.bytes + 1, WriteHeapEntry(e))
<1>0. p \in Seq(Nat) /\ Len(p) \in Nat /\ \A k \in 1 .. Len(p) : p[k] \in Fields BY FieldCells
<1>1. ~(Len(p) < 3) BY DecodeIs
<1> DEFINE size == p[1]
           raw == p[3]
           listed == p[2] >= 4
<1>2. Len(p) >= 3 /\ size \in Fields /\ p[2] \in Fields /\ raw \in Fields /\ listed \in BOOLEAN BY <1>0, <1>1
<1> DEFINE E(t, a, c) == [size |-> p[1], scope |-> p[2] % 4, raw |-> p[3], tag |-> t.value,
                          attributes |-> a.value, content |-> c.value, bytes |-> c.next - 1]
<1>3. PICK t \in TagOf(p, raw) :
        \E a \in AttributesOf(p, t.next, listed) : \E c \in ContentOf(p, a.next, size) : e = E(t, a, c)
  <2> HIDE DEF E
  <2>1. DecodeEntry(p) = UNION {UNION {{E(t, a, c) : c \in ContentOf(p, a.next, p[1])} :
                                        a \in AttributesOf(p, t.next, p[2] >= 4)} :
                                  t \in TagOf(p, p[3])}
    BY <1>1, DecodeIs DEF E
  <2> QED BY <2>1
<1>4. PICK a \in AttributesOf(p, t.next, listed) : \E c \in ContentOf(p, a.next, size) : e = E(t, a, c) BY <1>3
<1>5. PICK c \in ContentOf(p, a.next, size) : e = E(t, a, c) BY <1>4
<1> DEFINE i1 == t.next
           i2 == a.next
           i3 == c.next
<1>6. /\ e.size = p[1] /\ e.scope = p[2] % 4 /\ e.raw = p[3] /\ e.tag = t.value
      /\ e.attributes = a.value /\ e.content = c.value /\ e.bytes = i3 - 1
  BY <1>5
<1>7. e = OfBytes(e, e.bytes) BY <1>5 DEF OfBytes
<1> HIDE DEF E
<1>8. /\ t.value \in Signeds /\ i1 \in 4 .. (Len(p) + 1)
      /\ raw # 7 => t.value = raw - 2
      /\ Fits(p, 4, i1, WriteTag(raw, t.value))
  <2> HIDE DEF raw
  <2> QED BY <1>2, TagIs
<1> HIDE DEF size, raw, listed, i1, i2, i3
<1>9. i1 \in 1 .. Len(p) + 1 /\ i1 \in Nat \ {0} BY <1>0, <1>8
<1>10. /\ a.value \in Seq(Attribute) /\ Len(a.value) \in Unsigneds
       /\ i2 \in i1 .. (Len(p) + 1)
       /\ Fits(p, i1, i2, WriteList(a.value))
       /\ ~listed => a.value = << >>
       /\ listed => i1 < i2
  <2>1. a \in AttributesOf(p, i1, listed) BY DEF i1
  <2> QED BY <1>2, <1>9, <2>1, ListIsRead DEF i2
<1>11. i2 \in 1 .. Len(p) + 1 /\ i2 \in Nat \ {0} BY <1>0, <1>9, <1>10
<1>12. /\ Sized(size, c.value) /\ i3 \in i2 .. (Len(p) + 1)
       /\ Fits(p, i2, i3, WriteLength(size, c.value) \o c.value)
  <2>1. c \in ContentOf(p, i2, size) BY DEF i2
  <2> QED BY <1>2, <1>11, <2>1, ContentIsRead DEF i3
<1>13. i3 \in Nat /\ i3 - 1 \in 3 .. Len(p) /\ (i3 - 1) + 1 = i3 /\ i3 - 1 \in Nat BY <1>0, <1>8, <1>9, <1>10, <1>11, <1>12
<1>14. Readable(e)
  <2>1. e.scope \in 0 .. 3 BY <1>2, <1>6, ScopesAre
  <2>2. e.size \in Fields /\ e.raw \in Fields /\ e.tag \in Signeds /\ e.attributes \in Seq(Attribute)
        /\ e.bytes \in Nat
    BY <1>2, <1>6, <1>8, <1>10, <1>13 DEF size, raw
  <2>3. e.content \in Seq(Fields) /\ Sized(e.size, e.content) BY <1>6, <1>12 DEF Sized, size
  <2>4. e \in Entry BY <1>7, <2>1, <2>2, <2>3 DEF OfBytes, Entry
  <2>5. e.raw # 7 => e.tag = e.raw - 2 BY <1>6, <1>8 DEF raw
  <2> QED BY <1>6, <1>10, <2>3, <2>4, <2>5 DEF Readable
<1> DEFINE x == Command(e)
           y == WriteTag(e.raw, e.tag)
           z == WriteList(e.attributes)
           w == WriteLength(e.size, e.content) \o e.content
<1>15. /\ x \in Seq(Nat) /\ y \in Seq(Nat) /\ z \in Seq(Nat) /\ w \in Seq(Nat) /\ Len(x) = 3
       /\ WriteHeapEntry(e) = ((x \o y) \o z) \o w
  <2>1. w \in Seq(Fields)
    <3>1. WriteLength(e.size, e.content) \in Seq(Fields) /\ e.content \in Seq(Fields) BY <1>14, CommandIs
    <3> QED BY <3>1, ConcatProperties
  <2>2. x \in Seq(Fields) /\ y \in Seq(Fields) /\ z \in Seq(Fields) /\ Len(x) = 3 BY <1>14, CommandIs
  <2>3. WriteHeapEntry(e) = ((x \o y) \o z) \o w BY <1>14, EntryIsWritten
  <2> HIDE DEF x, y, z, w
  <2> QED BY <2>1, <2>2, <2>3, FieldCells
<1>16. Fits(p, 4, i1, y) /\ Fits(p, i1, i2, z) /\ Fits(p, i2, i3, w)
  BY <1>6, <1>8, <1>10, <1>12 DEF size, raw
<1>17. CASE ~(listed /\ a.value = << >>)
  <2>1. x = << p[1], p[2], p[3] >>
    <3>1. p[2] = IF e.attributes = << >> THEN e.scope ELSE 4 + e.scope
      <4>1. listed <=> e.attributes # << >> BY <1>6, <1>10, <1>17
      <4>2. (listed => p[2] = 4 + (p[2] % 4)) /\ (~listed => p[2] = p[2] % 4) BY <1>2, ScopesAre DEF listed
      <4> QED BY <1>6, <4>1, <4>2
    <3> QED BY <1>6, <3>1 DEF Command
  <2>2. Fits(p, 1, 4, x)
    <3>1. \A j \in Nat \ {0} : \A f, g, h :
            j + 2 <= Len(p) /\ p[j] = f /\ p[j + 1] = g /\ p[j + 2] = h => Fits(p, j, j + 3, << f, g, h >>)
      BY <1>0, FewFit
    <3>2. 1 \in Nat \ {0} /\ 1 + 1 = 2 /\ 1 + 2 = 3 /\ 1 + 3 = 4 /\ 3 <= Len(p) BY <1>2
    <3>3. Fits(p, 1, 4, << p[1], p[2], p[3] >>) BY <3>1, <3>2
    <3> QED BY <2>1, <3>3
  <2> HIDE DEF x, y, z, w
  <2>3. x \o y \in Seq(Nat) /\ (x \o y) \o z \in Seq(Nat)
    <3> DEFINE v == x \o y
    <3>1. v \in Seq(Nat) BY <1>15, ConcatProperties
    <3> HIDE DEF v
    <3>2. v \o z \in Seq(Nat) BY <1>15, <3>1, ConcatProperties
    <3> QED BY <3>1, <3>2 DEF v
  <2>4. Fits(p, 1, i1, x \o y)
    <3>1. \A i, m \in Nat \ {0} : Fits(p, i, m, x) /\ Fits(p, m, i1, y) => Fits(p, i, i1, x \o y)
      BY <1>0, <1>9, <1>15, FitsJoin
    <3>2. 1 \in Nat \ {0} /\ 4 \in Nat \ {0} OBVIOUS
    <3> QED BY <1>16, <2>2, <3>1, <3>2, Zenon
  <2>5. Fits(p, 1, i2, (x \o y) \o z)
    <3>1. \A i \in Nat \ {0} : Fits(p, i, i1, x \o y) => Fits(p, i, i2, (x \o y) \o z)
      BY <1>0, <1>9, <1>11, <1>15, <1>16, <2>3, FitsJoin
    <3>2. 1 \in Nat \ {0} OBVIOUS
    <3> QED BY <2>4, <3>1, <3>2, Zenon
  <2>6. Fits(p, 1, i3, ((x \o y) \o z) \o w)
    <3>1. \A i \in Nat \ {0} : Fits(p, i, i2, (x \o y) \o z) => Fits(p, i, i3, ((x \o y) \o z) \o w)
      BY <1>0, <1>11, <1>13, <1>15, <1>16, <2>3, FitsJoin
    <3>2. 1 \in Nat \ {0} OBVIOUS
    <3> QED BY <2>5, <3>1, <3>2, Zenon
  <2>7. Fits(p, 1, e.bytes + 1, WriteHeapEntry(e)) BY <1>6, <1>13, <1>15, <2>6
  <2> QED BY <1>6, <1>7, <1>13, <1>14, <2>7
<1>18. CASE listed /\ a.value = << >>
  <2>1. i1 < i2 BY <1>10, <1>18
  <2>2. z = << >> BY <1>6, <1>18 DEF WriteList
  <2> HIDE DEF x, y, z, w
  <2>3. Len(WriteHeapEntry(e)) = ((3 + Len(y)) + 0) + Len(w) /\ Len(y) \in Nat /\ Len(w) \in Nat
    <3>1. \A f, g \in Seq(Nat) : f \o g \in Seq(Nat) /\ Len(f \o g) = Len(f) + Len(g) /\ Len(f) \in Nat
      BY ConcatProperties
    <3>a. x \o y \in Seq(Nat) /\ Len(x \o y) = Len(x) + Len(y) BY <1>15, <3>1, Zenon
    <3>2. x \o y \in Seq(Nat) /\ Len(x \o y) = 3 + Len(y) BY <1>15, <3>a
    <3>3. Len(z) = 0 BY <2>2
    <3>4. (x \o y) \o z \in Seq(Nat) /\ Len((x \o y) \o z) = (3 + Len(y)) + 0
      <4> DEFINE v == x \o y
      <4>1. v \in Seq(Nat) /\ Len(v) = 3 + Len(y) BY <3>2
      <4> HIDE DEF v
      <4>2. v \o z \in Seq(Nat) /\ Len(v \o z) = (3 + Len(y)) + 0 BY <1>15, <3>1, <3>3, <4>1
      <4> QED BY <4>2 DEF v
    <3> DEFINE v == (x \o y) \o z
    <3>5. v \in Seq(Nat) /\ Len(v) = (3 + Len(y)) + 0 /\ WriteHeapEntry(e) = v \o w BY <1>15, <3>4
    <3> HIDE DEF v
    <3>6. Len(v \o w) = Len(v) + Len(w) /\ Len(y) \in Nat /\ Len(w) \in Nat BY <1>15, <3>1, <3>5
    <3> QED BY <3>5, <3>6
  <2>4. 4 + Len(y) <= i1 /\ i2 + Len(w) <= i3 BY <1>16 DEF Fits
  <2>5. \A l, m, f, g, h \in Nat : 4 + l <= f /\ f < g /\ g + m <= h
                                    => 1 + (((3 + l) + 0) + m) <= h /\ 1 + (((3 + l) + 0) + m) # h
    OBVIOUS
  <2>6. 1 + Len(WriteHeapEntry(e)) <= i3 /\ 1 + Len(WriteHeapEntry(e)) # i3
    BY <1>9, <1>11, <1>13, <2>1, <2>3, <2>4, <2>5
  <2>7. Fits(p, 1, e.bytes + 1, WriteHeapEntry(e)) BY <1>6, <1>13, <2>6 DEF Fits
  <2> QED BY <1>6, <1>7, <1>13, <1>14, <2>7
<1> QED BY <1>17, <1>18

\* The shortest form of an entry is read as that entry.
LEMMA EntryIsReadAgain ==
  ASSUME NEW q \in Seq(Fields), NEW e, Readable(e), Has(q, 1, WriteHeapEntry(e))
  PROVE  DecodeEntry(q) = {OfBytes(e, Len(WriteHeapEntry(e)))}
<1>0. q \in Seq(Nat) /\ Len(q) \in Nat BY FieldCells
<1> DEFINE x == Command(e)
           y == WriteTag(e.raw, e.tag)
           z == WriteList(e.attributes)
           w == WriteLength(e.size, e.content) \o e.content
           i1 == 4 + Len(y)
           i2 == i1 + Len(z)
           i3 == i2 + Len(w)
           listed == e.attributes # << >>
<1>1. /\ x \in Seq(Nat) /\ y \in Seq(Nat) /\ z \in Seq(Nat) /\ w \in Seq(Nat) /\ Len(x) = 3
      /\ WriteHeapEntry(e) = ((x \o y) \o z) \o w
  <2>1. w \in Seq(Fields)
    <3>1. WriteLength(e.size, e.content) \in Seq(Fields) /\ e.content \in Seq(Fields) BY CommandIs
    <3> QED BY <3>1, ConcatProperties
  <2>2. x \in Seq(Fields) /\ y \in Seq(Fields) /\ z \in Seq(Fields) /\ Len(x) = 3 BY CommandIs
  <2>3. WriteHeapEntry(e) = ((x \o y) \o z) \o w BY EntryIsWritten
  <2> HIDE DEF x, y, z, w
  <2> QED BY <2>1, <2>2, <2>3, FieldCells
<1>2. /\ e.size \in Fields /\ e.scope \in 0 .. 3 /\ e.raw \in Fields /\ e.tag \in Signeds
      /\ e.attributes \in Seq(Attribute) /\ Len(e.attributes) \in Unsigneds
      /\ Sized(e.size, e.content)
      /\ e.raw # 7 => e.tag = e.raw - 2
  BY DEF Readable, Entry
<1> DEFINE s == IF e.attributes = << >> THEN e.scope ELSE 4 + e.scope
<1>3. s % 4 = e.scope /\ (s >= 4 <=> listed)
  BY <1>2, ScopesAre
<1>4. x = << e.size, s, e.raw >> BY DEF Command
<1> HIDE DEF x, y, z, w, s
<1>5. \A f, g \in Seq(Nat) : f \o g \in Seq(Nat) /\ Len(f \o g) = Len(f) + Len(g) /\ Len(f) \in Nat /\ Len(g) \in Nat
  BY ConcatProperties
<1>6. x \o y \in Seq(Nat) /\ Len(x \o y) = 3 + Len(y) /\ Len(y) \in Nat
  <2>1. x \o y \in Seq(Nat) /\ Len(x \o y) = Len(x) + Len(y) /\ Len(y) \in Nat BY <1>1, <1>5, Zenon
  <2> QED BY <1>1, <2>1
<1>7. (x \o y) \o z \in Seq(Nat) /\ Len((x \o y) \o z) = (3 + Len(y)) + Len(z) /\ Len(z) \in Nat
  <2> DEFINE v == x \o y
  <2>1. v \in Seq(Nat) /\ Len(v) = 3 + Len(y) BY <1>6
  <2> HIDE DEF v
  <2>2. v \o z \in Seq(Nat) /\ Len(v \o z) = (3 + Len(y)) + Len(z) /\ Len(z) \in Nat BY <1>1, <1>5, <2>1, Zenon
  <2> QED BY <2>2 DEF v
<1>8. Len(WriteHeapEntry(e)) = ((3 + Len(y)) + Len(z)) + Len(w) /\ Len(w) \in Nat
  <2> DEFINE v == (x \o y) \o z
  <2>1. v \in Seq(Nat) /\ Len(v) = (3 + Len(y)) + Len(z) BY <1>7
  <2>2. WriteHeapEntry(e) = v \o w BY <1>1
  <2> HIDE DEF v
  <2> QED BY <1>1, <1>5, <2>1, <2>2, Zenon
<1>9. \A v, u \in Seq(Nat) : Has(q, 1, v \o u) => Has(q, 1, v) /\ Has(q, 1 + Len(v), u)
  <2>1. \A j \in Nat \ {0} : \A v, u \in Seq(Nat) : Has(q, j, v \o u) => Has(q, j, v) /\ Has(q, j + Len(v), u)
    BY <1>0, HasJoin
  <2>2. 1 \in Nat \ {0} OBVIOUS
  <2> QED BY <2>1, <2>2, Zenon
<1>10. Has(q, 1, (x \o y) \o z) /\ Has(q, 1 + ((3 + Len(y)) + Len(z)), w) BY <1>1, <1>7, <1>9, Zenon
<1>11. Has(q, 1, x \o y) /\ Has(q, 1 + (3 + Len(y)), z) BY <1>1, <1>6, <1>9, <1>10, Zenon
<1>12. Has(q, 1, x) /\ Has(q, 1 + 3, y) BY <1>1, <1>9, <1>11, Zenon
<1>13. /\ 1 + 3 = 4 /\ 1 + (3 + Len(y)) = i1 /\ 1 + ((3 + Len(y)) + Len(z)) = i2
       /\ i1 \in Nat \ {0} /\ i2 \in Nat \ {0} /\ i3 - 1 = Len(WriteHeapEntry(e))
  BY <1>6, <1>7, <1>8
<1>14. Has(q, 4, y) /\ Has(q, i1, z) /\ Has(q, i2, w) BY <1>10, <1>11, <1>12, <1>13
<1>15. 3 <= Len(q) /\ q[1] = e.size /\ q[2] = s /\ q[3] = e.raw
  <2>1. \A j \in Nat \ {0} : \A f, g, h : Has(q, j, << f, g, h >>)
          => j + 2 <= Len(q) /\ q[j] = f /\ q[j + 1] = g /\ q[j + 2] = h
    BY <1>0, HasThree
  <2>2. 1 \in Nat \ {0} /\ 1 + 1 = 2 /\ 1 + 2 = 3 OBVIOUS
  <2>3. Has(q, 1, << e.size, s, e.raw >>) BY <1>4, <1>12
  <2>4. 1 + 2 <= Len(q) /\ q[1] = e.size /\ q[1 + 1] = s /\ q[1 + 2] = e.raw BY <2>1, <2>2, <2>3, Zenon
  <2> QED BY <2>2, <2>4
<1>16. i1 \in 1 .. Len(q) + 1 /\ i2 \in 1 .. Len(q) + 1
  <2>1. i1 + Len(z) <= Len(q) + 1 /\ i2 + Len(w) <= Len(q) + 1 BY <1>14 DEF Has
  <2> QED BY <1>0, <1>6, <1>7, <1>8, <1>13, <2>1
<1>17. ~(Len(q) < 3) BY <1>0, <1>15
<1> HIDE DEF i3
<1>18. TagOf(q, e.raw) = {[value |-> e.tag, next |-> i1]}
  <2>0. \A v \in Signeds :
          (e.raw # 7 => v = e.raw - 2) /\ Has(q, 4, WriteTag(e.raw, v))
            => TagOf(q, e.raw) = Read(v, 4 + Len(WriteTag(e.raw, v)))
    <3>1. Len(q) >= 3 BY <1>0, <1>15
    <3> QED BY <1>2, <3>1, TagIs
  <2>a. Has(q, 4, WriteTag(e.raw, e.tag)) BY <1>14 DEF y
  <2>b. e.tag \in Signeds /\ (e.raw # 7 => e.tag = e.raw - 2) BY <1>2
  <2>c. TagOf(q, e.raw) = Read(e.tag, 4 + Len(WriteTag(e.raw, e.tag)))
    <3> DEFINE v == e.tag
    <3>1. v \in Signeds /\ (e.raw # 7 => v = e.raw - 2) /\ Has(q, 4, WriteTag(e.raw, v)) BY <2>a, <2>b
    <3> HIDE DEF v
    <3>2. TagOf(q, e.raw) = Read(v, 4 + Len(WriteTag(e.raw, v))) BY <2>0, <3>1
    <3> QED BY <3>2 DEF v
  <2>1. TagOf(q, e.raw) = Read(e.tag, 4 + Len(y)) BY <2>c DEF y
  <2> QED BY <2>1 DEF Read
<1> HIDE DEF i1
<1>19. AttributesOf(q, i1, listed) = {[value |-> e.attributes, next |-> i2]}
  <2>1. listed \in BOOLEAN OBVIOUS
  <2>2. AttributesOf(q, i1, listed) = Read(e.attributes, i1 + Len(z)) BY <1>2, <1>14, <1>16, <2>1, ListIsRead DEF z
  <2> QED BY <2>2 DEF Read
<1> HIDE DEF i2
<1>20. ContentOf(q, i2, e.size) = {[value |-> e.content, next |-> i3]}
  <2>0. \A v : Sized(e.size, v) /\ Has(q, i2, WriteLength(e.size, v) \o v)
                 => ContentOf(q, i2, e.size) = Read(v, i2 + Len(WriteLength(e.size, v) \o v))
    BY <1>2, <1>16, ContentIsRead
  <2>a. Has(q, i2, WriteLength(e.size, e.content) \o e.content) /\ Sized(e.size, e.content) BY <1>2, <1>14 DEF w
  <2>b. ContentOf(q, i2, e.size) = Read(e.content, i2 + Len(WriteLength(e.size, e.content) \o e.content))
    BY <2>0, <2>a
  <2>1. ContentOf(q, i2, e.size) = Read(e.content, i2 + Len(w)) BY <2>b DEF w
  <2> QED BY <2>1 DEF Read, i3
<1> DEFINE E(t, a, c) == [size |-> q[1], scope |-> q[2] % 4, raw |-> q[3], tag |-> t.value,
                          attributes |-> a.value, content |-> c.value, bytes |-> c.next - 1]
           t == [value |-> e.tag, next |-> i1]
           a == [value |-> e.attributes, next |-> i2]
           c == [value |-> e.content, next |-> i3]
<1>21. DecodeEntry(q) = UNION {UNION {{E(r, m, n) : n \in ContentOf(q, m.next, q[1])} :
                                       m \in AttributesOf(q, r.next, q[2] >= 4)} :
                                 r \in TagOf(q, q[3])}
  <2> HIDE DEF E
  <2> QED BY <1>17, DecodeIs DEF E
<1>22. t.next = i1 /\ a.next = i2 /\ t.value = e.tag /\ a.value = e.attributes /\ c.value = e.content /\ c.next = i3
  OBVIOUS
<1>23. (q[2] >= 4) = listed BY <1>3, <1>15
<1>24. E(t, a, c) = OfBytes(e, Len(WriteHeapEntry(e)))
  <2> HIDE DEF t, a, c
  <2> QED BY <1>3, <1>13, <1>15, <1>22 DEF OfBytes
<1>25. TagOf(q, q[3]) = {t} /\ AttributesOf(q, t.next, q[2] >= 4) = {a} /\ ContentOf(q, a.next, q[1]) = {c}
  <2> HIDE DEF listed
  <2> QED BY <1>15, <1>18, <1>19, <1>20, <1>22, <1>23
<1> HIDE DEF t, a, c, E
<1>26. DecodeEntry(q) = {E(t, a, c)} BY <1>21, <1>25
<1> QED BY <1>24, <1>26

-----------------------------------------------------------------------------
(***************************************************************************)
(* A stream of entries, read to its end.                                   *)
(***************************************************************************)

\* What stands in the rest of p stands in p further on.
LEMMA RestIs ==
  ASSUME NEW p \in Seq(Fields), NEW j \in 1 .. Len(p) + 1
  PROVE  /\ Rest(p, j - 1) \in Seq(Fields) /\ Len(Rest(p, j - 1)) = Len(p) + 1 - j
         /\ \A w : Len(w) \in Nat => (Has(Rest(p, j - 1), 1, w) <=> Has(p, j, w))
         /\ \A w, n : Len(w) \in Nat /\ n \in Nat /\ Fits(Rest(p, j - 1), 1, n + 1, w) => Fits(p, j, j + n, w)
<1> DEFINE r == Rest(p, j - 1)
           n == Len(p)
<1>0. n \in Nat /\ \A i \in 1 .. n : p[i] \in Fields BY FieldCells
<1>1. j \in Nat /\ j >= 1 /\ j <= n + 1 /\ (j - 1) + 1 = j BY <1>0
<1>2. r \in Seq(Fields) /\ Len(r) = n + 1 - j /\ \A i \in 1 .. n + 1 - j : r[i] = p[j + i - 1]
  <2>1. r = SubSeq(p, j, n) BY <1>1 DEF Rest
  <2>2. j \in Int /\ n \in Int /\ \A i \in j .. n : p[i] \in Fields BY <1>0, <1>1
  <2>3. /\ SubSeq(p, j, n) \in Seq(Fields) /\ Len(SubSeq(p, j, n)) = IF j <= n THEN n - j + 1 ELSE 0
        /\ \A i \in 1 .. n - j + 1 : SubSeq(p, j, n)[i] = p[j + i - 1]
    BY <2>2, SubSeqProperties
  <2> HIDE DEF r, n
  <2>4. (IF j <= n THEN n - j + 1 ELSE 0) = n + 1 - j /\ n - j + 1 = n + 1 - j BY <1>0, <1>1
  <2>5. SubSeq(p, j, n) = r /\ Len(p) = n BY <2>1 DEF n
  <2> QED BY <2>3, <2>4, <2>5
<1> HIDE DEF r
<1>3. ASSUME NEW w, Len(w) \in Nat PROVE Has(r, 1, w) <=> Has(p, j, w)
  <2> DEFINE l == Len(w)
  <2>1. l \in Nat BY <1>3
  <2>2. Has(r, 1, w) <=> (1 + l <= (n + 1 - j) + 1 /\ \A k \in 1 .. l : r[1 + k - 1] = w[k]) BY <1>2 DEF Has
  <2>3. Has(p, j, w) <=> (j + l <= n + 1 /\ \A k \in 1 .. l : p[j + k - 1] = w[k]) BY DEF Has
  <2> HIDE DEF l, n
  <2>4. 1 + l <= (n + 1 - j) + 1 <=> j + l <= n + 1 BY <1>0, <1>1, <2>1
  <2>5. ASSUME j + l <= n + 1, NEW k \in 1 .. l PROVE r[1 + k - 1] = p[j + k - 1]
    <3>1. k \in 1 .. n + 1 - j /\ 1 + k - 1 = k BY <1>0, <1>1, <2>1, <2>5
    <3> QED BY <1>2, <3>1
  <2> QED BY <2>2, <2>3, <2>4, <2>5
<1>4. ASSUME NEW w, NEW m \in Nat, Len(w) \in Nat, Fits(r, 1, m + 1, w) PROVE Fits(p, j, j + m, w)
  <2>1. 1 + Len(w) <= m + 1 /\ (1 + Len(w) = m + 1 => Has(r, 1, w)) BY <1>4 DEF Fits
  <2>2. \A l \in Nat : (1 + l <= m + 1 <=> j + l <= j + m) /\ (1 + l = m + 1 <=> j + l = j + m) BY <1>1
  <2> QED BY <1>3, <1>4, <2>1, <2>2 DEF Fits
<1> QED BY <1>2, <1>3, <1>4 DEF r

AllEntries == {e \in Entry : Readable(e)}

WriteEntries(s) == FlattenSeq([k \in DOMAIN s |-> WriteHeapEntry(s[k])])

LEMMA EntriesTyped ==
  ASSUME NEW s \in Seq(AllEntries)
  PROVE  WriteEntries(s) \in Seq(Fields)
<1> DEFINE f == [e \in AllEntries |-> WriteHeapEntry(e)]
           u == MapOf(f, s)
<1>1. f \in [AllEntries -> Seq(Fields)] BY EntryIsWritten DEF AllEntries
<1>2. \A k \in DOMAIN s : s[k] \in AllEntries
  <2>1. DOMAIN s = 1 .. Len(s) BY LenProperties
  <2> QED BY <2>1, ElementOfSeq
<1>3. u = [k \in DOMAIN s |-> WriteHeapEntry(s[k])] BY <1>2 DEF MapOf
<1> HIDE DEF f
<1>4. u \in Seq(Seq(Fields)) BY <1>1, MapTyped
<1> HIDE DEF u
<1>5. FlattenSeq(u) \in Seq(Fields) BY <1>4, FlattenTyped
<1> QED BY <1>3, <1>5 DEF WriteEntries

\* An entry before the others of its stream.
LEMMA EntriesCons ==
  ASSUME NEW e \in AllEntries, NEW s \in Seq(AllEntries)
  PROVE  WriteEntries(<< e >> \o s) = WriteHeapEntry(e) \o WriteEntries(s)
<1> DEFINE f == [x \in AllEntries |-> WriteHeapEntry(x)]
           M(t) == MapOf(f, t)
           b == << e >> \o s
<1>1. f \in [AllEntries -> Seq(Fields)] /\ f[e] = WriteHeapEntry(e) BY EntryIsWritten DEF AllEntries
<1>2. \A t \in Seq(AllEntries) : FlattenSeq(M(t)) = WriteEntries(t)
  <2> TAKE t \in Seq(AllEntries)
  <2>0. DOMAIN t = 1 .. Len(t) BY LenProperties
  <2>1. \A k \in DOMAIN t : t[k] \in AllEntries BY <2>0, ElementOfSeq
  <2>2. M(t) = [k \in DOMAIN t |-> WriteHeapEntry(t[k])] BY <2>1 DEF MapOf
  <2> QED BY <2>2 DEF WriteEntries
<1> HIDE DEF f
<1>3. M(b) = << f[e] >> \o M(s) BY MapCons
<1>4. M(s) \in Seq(Seq(Fields)) BY <1>1, MapTyped
<1>5. b \in Seq(AllEntries) BY ConsIs
<1>6. f[e] \in Seq(Fields) BY <1>1
<1> HIDE DEF M, b
<1>7. FlattenSeq(M(s)) \in Seq(Fields) BY <1>4, FlattenTyped
<1>8. FlattenSeq(<< f[e] >> \o M(s)) = f[e] \o FlattenSeq(M(s)) BY <1>4, <1>6, <1>7, FlattenCons
<1>9. WriteEntries(b) = WriteHeapEntry(e) \o WriteEntries(s) BY <1>1, <1>2, <1>3, <1>5, <1>8
<1> QED BY <1>9 DEF b

WalkAt(f, p, i) ==
  IF i > Len(p) THEN {<< >>}
  ELSE UNION {{<< e >> \o s : s \in f[i + e.bytes]} : e \in DecodeEntry(Rest(p, i - 1))}

WalkFrom(p) == CHOOSE f : f = [i \in 1 .. Len(p) + 1 |-> WalkAt(f, p, i)]

LEMMA WalkIs ==
  ASSUME NEW p
  PROVE  WalkEntries(p) = WalkFrom(p)[1]
BY DEF WalkEntries, WalkFrom, WalkAt

\* The entry at cell i of p, and where the next one begins.
LEMMA EntryAt ==
  ASSUME NEW p \in Seq(Fields), NEW i \in 1 .. Len(p), NEW e \in DecodeEntry(Rest(p, i - 1))
  PROVE  /\ e \in AllEntries /\ e = OfBytes(e, e.bytes) /\ e.bytes \in Nat
         /\ i + e.bytes \in (i + 1) .. (Len(p) + 1)
         /\ Fits(p, i, i + e.bytes, WriteHeapEntry(e))
<1> DEFINE r == Rest(p, i - 1)
           n == Len(p)
           m == e.bytes
<1>0. n \in Nat /\ i \in 1 .. n + 1 BY FieldCells
<1>1. r \in Seq(Fields) /\ Len(r) = n + 1 - i BY <1>0, RestIs
<1>2. Readable(e) /\ e = OfBytes(e, m) /\ m \in 3 .. Len(r) /\ Fits(r, 1, m + 1, WriteHeapEntry(e))
  BY <1>1, EntryIsRead
<1>3. e \in AllEntries BY <1>2 DEF AllEntries, Readable
<1>4. Len(WriteHeapEntry(e)) \in Nat BY <1>2, EntryIsWritten
<1> HIDE DEF r, n, m
<1>5. m \in Nat /\ i + m \in (i + 1) .. (n + 1) BY <1>0, <1>1, <1>2
<1>6. \A w, k : Len(w) \in Nat /\ k \in Nat /\ Fits(r, 1, k + 1, w) => Fits(p, i, i + k, w)
  BY <1>0, RestIs DEF r, n
<1>7. Fits(p, i, i + m, WriteHeapEntry(e)) BY <1>2, <1>4, <1>5, <1>6
<1> QED BY <1>2, <1>3, <1>5, <1>7 DEF n, m

LEMMA WalksAgree ==
  ASSUME NEW p \in Seq(Fields), NEW i \in 1 .. Len(p) + 1, NEW f, NEW g,
         \A k \in (i + 1) .. (Len(p) + 1) : f[k] = g[k]
  PROVE  WalkAt(f, p, i) = WalkAt(g, p, i)
<1>0. Len(p) \in Nat BY FieldCells
<1>1. CASE i > Len(p) BY <1>1 DEF WalkAt
<1>2. CASE ~(i > Len(p))
  <2>1. i \in 1 .. Len(p) BY <1>0, <1>2
  <2>2. \A e \in DecodeEntry(Rest(p, i - 1)) : f[i + e.bytes] = g[i + e.bytes] BY <2>1, EntryAt
  <2> DEFINE F(h, e) == {<< e >> \o s : s \in h[i + e.bytes]}
             D == DecodeEntry(Rest(p, i - 1))
  <2>3. \A e \in D : F(f, e) = F(g, e) BY <2>2
  <2>4. \A h : WalkAt(h, p, i) = UNION {F(h, e) : e \in D} BY <1>2 DEF WalkAt
  <2> HIDE DEF F, D
  <2>5. {F(f, e) : e \in D} = {F(g, e) : e \in D} BY <2>3
  <2> QED BY <2>4, <2>5
<1> QED BY <1>1, <1>2

\* Every entry takes up cells, so the walk from a cell is defined by those from later ones.
LEMMA WalkExists ==
  ASSUME NEW p \in Seq(Fields)
  PROVE  \A i \in 1 .. Len(p) + 1 : WalkFrom(p)[i] = WalkAt(WalkFrom(p), p, i)
<1> DEFINE n == Len(p)
           Places == 1 .. n + 1
           Q(m, f) == f = [i \in Places |-> f[i]] /\ \A i \in (n + 1 - m) .. (n + 1) : f[i] = WalkAt(f, p, i)
           S == {m \in 0 .. n : \E f : Q(m, f)}
<1>0. n \in Nat BY FieldCells
<1>a. \A i \in Places : \A f, g : (\A k \in (i + 1) .. (n + 1) : f[k] = g[k]) => WalkAt(f, p, i) = WalkAt(g, p, i)
  BY WalksAgree
<1>b. \A f : WalkAt(f, p, n + 1) = {<< >>}
  <2>1. n + 1 > n BY <1>0
  <2> QED BY <2>1 DEF WalkAt
<1> HIDE DEF n
<1>1. ASSUME NEW m \in 0 .. n, \A k \in 0 .. m - 1 : k \in S PROVE m \in S
  <2>1. CASE m = 0
    <3> DEFINE f == [i \in Places |-> {<< >>}]
    <3>1. f = [i \in Places |-> f[i]] /\ f[n + 1] = {<< >>} BY <1>0
    <3>2. (n + 1 - m) .. (n + 1) = {n + 1} BY <1>0, <2>1
    <3> HIDE DEF f
    <3>3. \A i \in (n + 1 - m) .. (n + 1) : f[i] = WalkAt(f, p, i) BY <1>b, <3>1, <3>2
    <3>4. Q(m, f) BY <3>1, <3>3
    <3> HIDE DEF Q
    <3> QED BY <3>4
  <2>2. CASE m # 0
    <3> DEFINE i0 == n + 1 - m
    <3>1. m - 1 \in 0 .. m - 1 /\ i0 \in Places /\ n + 1 - (m - 1) = i0 + 1 /\ i0 \in Nat BY <1>0, <2>2
    <3>2. PICK f : Q(m - 1, f) BY <1>1, <3>1
    <3>3. \A i \in (i0 + 1) .. (n + 1) : f[i] = WalkAt(f, p, i) BY <3>1, <3>2
    <3> HIDE DEF Q
    <3> DEFINE g == [i \in Places |-> IF i = i0 THEN WalkAt(f, p, i0) ELSE f[i]]
    <3>4. g[i0] = WalkAt(f, p, i0) /\ g = [i \in Places |-> g[i]] BY <3>1
    <3>5. \A i \in (i0 + 1) .. (n + 1) : g[i] = f[i]
      <4>1. \A i \in (i0 + 1) .. (n + 1) : i \in Places /\ i # i0 BY <1>0, <3>1
      <4> QED BY <4>1
    <3> HIDE DEF g, S
    <3>6. ASSUME NEW i \in i0 .. (n + 1) PROVE g[i] = WalkAt(g, p, i)
      <4>1. i \in Places /\ (i = i0 \/ i \in (i0 + 1) .. (n + 1)) /\ \A k \in (i + 1) .. (n + 1) : k \in (i0 + 1) .. (n + 1)
        BY <1>0, <3>1
      <4>2. WalkAt(g, p, i) = WalkAt(f, p, i) BY <1>a, <3>5, <4>1
      <4> QED BY <3>3, <3>4, <3>5, <4>1, <4>2
    <3>7. Q(m, g) BY <3>4, <3>6 DEF Q
    <3> HIDE DEF g
    <3> QED BY <3>7 DEF S
  <2> QED BY <2>1, <2>2
<1>2. n \in S
  <2> HIDE DEF S
  <2>1. n \in 0 .. n BY <1>0
  <2> QED BY <1>0, <1>1, <2>1, FromBelow
<1>3. PICK f : Q(n, f) BY <1>2
<1>4. \A i \in Places : f[i] = WalkAt(f, p, i)
  <2>1. n + 1 - n = 1 BY <1>0
  <2> QED BY <1>3, <2>1
<1>5. f = [i \in Places |-> WalkAt(f, p, i)] BY <1>3, <1>4
<1>6. WalkFrom(p) = [i \in Places |-> WalkAt(WalkFrom(p), p, i)] BY <1>5 DEF WalkFrom, n
<1> QED BY <1>6 DEF n

\* The entries read from cell i on fit, in their shortest form, in the cells from there.
LEMMA EntriesAreRead ==
  ASSUME NEW p \in Seq(Fields)
  PROVE  \A i \in 1 .. Len(p) + 1 : \A w \in WalkFrom(p)[i] :
           w \in Seq(AllEntries) /\ Fits(p, i, Len(p) + 1, WriteEntries(w))
<1> DEFINE n == Len(p)
           f == WalkFrom(p)
           Sound(i) == \A w \in f[i] : w \in Seq(AllEntries) /\ Fits(p, i, n + 1, WriteEntries(w))
           T == {m \in 0 .. n : Sound(n + 1 - m)}
<1>0. n \in Nat /\ p \in Seq(Nat) BY FieldCells
<1>1. \A i \in 1 .. n + 1 : f[i] = WalkAt(f, p, i) BY WalkExists
<1>2. << >> \in Seq(AllEntries) /\ WriteEntries(<< >>) = << >> BY DEF WriteEntries, FlattenSeq
<1> HIDE DEF f
<1>3. ASSUME NEW m \in 0 .. n, \A k \in 0 .. m - 1 : k \in T PROVE Sound(n + 1 - m)
  <2> DEFINE i == n + 1 - m
  <2>1. i \in 1 .. n + 1 /\ i \in Nat \ {0} BY <1>0
  <2> SUFFICES ASSUME NEW w \in f[i] PROVE w \in Seq(AllEntries) /\ Fits(p, i, n + 1, WriteEntries(w))
    OBVIOUS
  <2>2. CASE m = 0
    <3>1. i > n /\ i = n + 1 BY <1>0, <2>2
    <3>2. f[i] = {<< >>} BY <1>1, <2>1, <3>1 DEF WalkAt
    <3>3. w = << >> BY <3>2
    <3>4. \A j \in 1 .. n + 1 : Fits(p, j, j, << >>) BY <1>0, HasNone
    <3> HIDE DEF i
    <3> QED BY <1>2, <2>1, <3>1, <3>3, <3>4
  <2>3. CASE m # 0
    <3>1. ~(i > n) /\ i \in 1 .. n BY <1>0, <2>3
    <3>2. f[i] = UNION {{<< e >> \o s : s \in f[i + e.bytes]} : e \in DecodeEntry(Rest(p, i - 1))}
      BY <1>1, <2>1, <3>1 DEF WalkAt
    <3> HIDE DEF Sound
    <3>3. PICK e \in DecodeEntry(Rest(p, i - 1)) : w \in {<< e >> \o s : s \in f[i + e.bytes]}
      BY <3>2
    <3>4. PICK s \in f[i + e.bytes] : w = << e >> \o s BY <3>3
    <3>5. /\ e \in AllEntries /\ i + e.bytes \in (i + 1) .. (n + 1)
          /\ Fits(p, i, i + e.bytes, WriteHeapEntry(e))
      BY <3>1, EntryAt
    <3> DEFINE j == i + e.bytes
               k == n + 1 - j
    <3>6. j \in (i + 1) .. (n + 1) BY <3>5
    <3> HIDE DEF j
    <3>7. j \in Nat /\ j \in 1 .. n + 1 /\ k \in 0 .. m - 1 /\ n + 1 - k = j
      BY <1>0, <2>1, <3>6
    <3> HIDE DEF k, T
    <3>8. k \in T BY <1>3, <3>7
    <3>9. Sound(j) BY <3>7, <3>8 DEF T
    <3>10. s \in Seq(AllEntries) /\ Fits(p, j, n + 1, WriteEntries(s)) BY <3>4, <3>9 DEF Sound, j
    <3> HIDE DEF i
    <3>11. w \in Seq(AllEntries) BY <3>4, <3>5, <3>10, ConsIs
    <3>12. WriteEntries(w) = WriteHeapEntry(e) \o WriteEntries(s) BY <3>4, <3>5, <3>10, EntriesCons
    <3>13. WriteHeapEntry(e) \in Seq(Nat) /\ WriteEntries(s) \in Seq(Nat)
      <4>1. WriteHeapEntry(e) \in Seq(Fields) BY <3>5, EntryIsWritten DEF AllEntries
      <4>2. WriteEntries(s) \in Seq(Fields) BY <3>10, EntriesTyped
      <4> QED BY <4>1, <4>2, FieldCells
    <3>14. Fits(p, i, j, WriteHeapEntry(e)) BY <3>5 DEF j
    <3>15. n + 1 \in Nat BY <1>0
    <3>16. Fits(p, i, n + 1, WriteEntries(w)) BY <1>0, <2>1, <3>7, <3>10, <3>12, <3>13, <3>14, <3>15, FitsJoin
    <3> QED BY <3>11, <3>16
  <2> QED BY <2>2, <2>3
<1>4. ASSUME NEW m \in 0 .. n, \A k \in 0 .. m - 1 : k \in T PROVE m \in T
  <2>1. Sound(n + 1 - m) BY <1>3, <1>4
  <2> HIDE DEF Sound
  <2> QED BY <2>1
<1>5. \A m \in 0 .. n : m \in T
  <2> HIDE DEF T
  <2> QED BY <1>0, <1>4, FromBelow
<1>6. ASSUME NEW i \in 1 .. n + 1 PROVE Sound(i)
  <2> DEFINE m == n + 1 - i
  <2>1. m \in 0 .. n /\ n + 1 - m = i BY <1>0
  <2> HIDE DEF m, Sound
  <2> QED BY <1>5, <2>1
<1> QED BY <1>6 DEF f, n

\* The entry as it is read from its shortest form.
Shortest == [e \in AllEntries |-> OfBytes(e, Len(WriteHeapEntry(e)))]

\* Shortest forms that take up the cells from j on are read as their entries.
LEMMA EntriesAreReadAgain ==
  ASSUME NEW q \in Seq(Fields), NEW n \in Nat
  PROVE  \A w \in Seq(AllEntries), j \in 1 .. Len(q) + 1 :
           Len(w) = n /\ Has(q, j, WriteEntries(w)) /\ j + Len(WriteEntries(w)) = Len(q) + 1
             => WalkFrom(q)[j] = {MapOf(Shortest, w)}
<1> DEFINE f == WalkFrom(q)
           l == Len(q)
           Again(m) == \A w \in Seq(AllEntries), j \in 1 .. l + 1 :
                         Len(w) = m /\ Has(q, j, WriteEntries(w)) /\ j + Len(WriteEntries(w)) = l + 1
                           => f[j] = {MapOf(Shortest, w)}
           T == {m \in 0 .. n : Again(m)}
<1>0. l \in Nat /\ q \in Seq(Nat) BY FieldCells
<1>1. \A i \in 1 .. l + 1 : f[i] = WalkAt(f, q, i) BY WalkExists
<1>2. WriteEntries(<< >>) = << >> /\ Len(<< >>) = 0 /\ MapOf(Shortest, << >>) = << >>
  BY DEF WriteEntries, FlattenSeq, MapOf
<1> HIDE DEF f
<1>3. ASSUME NEW m \in 0 .. n, \A k \in 0 .. m - 1 : k \in T,
             NEW w \in Seq(AllEntries), NEW j \in 1 .. l + 1,
             Len(w) = m, Has(q, j, WriteEntries(w)), j + Len(WriteEntries(w)) = l + 1
      PROVE  f[j] = {MapOf(Shortest, w)}
  <2>0. j \in Nat \ {0} BY <1>0
  <2>1. CASE m = 0
    <3>1. w = << >> BY <1>3, <2>1, EmptySeq
    <3>2. j > l BY <1>0, <1>2, <1>3, <2>0, <3>1
    <3>3. f[j] = {<< >>} BY <1>1, <3>2 DEF WalkAt
    <3> QED BY <1>2, <3>1, <3>3
  <2>2. CASE m # 0
    <3> DEFINE e == Head(w)
               t == Tail(w)
    <3>1. e \in AllEntries /\ t \in Seq(AllEntries) /\ Len(t) = m - 1 /\ w = << e >> \o t
      BY <1>3, <2>2, HeadFirst
    <3> HIDE DEF e, t
    <3> DEFINE x == WriteHeapEntry(e)
               y == WriteEntries(t)
               b == Len(x)
               i == j + b
               h == OfBytes(e, b)
    <3>2. /\ Readable(e) /\ x \in Seq(Nat) /\ y \in Seq(Nat) /\ b \in Nat /\ b >= 3 /\ Len(y) \in Nat
      <4>1. Readable(e) BY <3>1 DEF AllEntries
      <4>2. x \in Seq(Fields) /\ b \in Nat /\ b >= 3 BY <4>1, EntryIsWritten
      <4>3. y \in Seq(Fields) BY <3>1, EntriesTyped
      <4> QED BY <4>1, <4>2, <4>3, FieldCells
    <3>3. WriteEntries(w) = x \o y BY <3>1, EntriesCons
    <3> HIDE DEF x, y
    <3>4. Len(x \o y) = b + Len(y) BY <3>2, ConcatProperties
    <3>5. Has(q, j, x) /\ Has(q, i, y) BY <1>0, <1>3, <2>0, <3>2, <3>3, HasJoin
    <3>6. j \in 1 .. l /\ ~(j > l) /\ i \in 1 .. l + 1 /\ i + Len(y) = l + 1
      <4>1. j + (b + Len(y)) = l + 1 BY <1>3, <3>3, <3>4
      <4> HIDE DEF b
      <4> QED BY <1>0, <2>0, <3>2, <4>1
    <3>7. m - 1 \in 0 .. m - 1 BY <2>2
    <3>8. f[i] = {MapOf(Shortest, t)}
      <4>1. m - 1 \in T BY <1>3, <3>7
      <4> HIDE DEF i, l
      <4>2. Again(m - 1) BY <4>1
      <4> QED BY <3>1, <3>5, <3>6, <4>2 DEF y
    <3>9. DecodeEntry(Rest(q, j - 1)) = {h}
      <4> DEFINE r == Rest(q, j - 1)
      <4>1. r \in Seq(Fields) BY RestIs
      <4>2. Has(r, 1, x)
        <5>1. \A v : Len(v) \in Nat => (Has(r, 1, v) <=> Has(q, j, v)) BY RestIs
        <5> HIDE DEF r
        <5> QED BY <3>2, <3>5, <5>1
      <4> HIDE DEF r
      <4>3. DecodeEntry(r) = {h} BY <3>2, <4>1, <4>2, EntryIsReadAgain DEF x
      <4> QED BY <4>3 DEF r
    <3>10. h.bytes = b BY DEF OfBytes
    <3>11. MapOf(Shortest, w) = << h >> \o MapOf(Shortest, t)
      <4>1. Shortest[e] = h BY <3>1 DEF Shortest, x
      <4> HIDE DEF h
      <4> QED BY <3>1, <4>1, MapCons
    <3> HIDE DEF h
    <3>12. j + h.bytes = i BY <3>10
    <3>13. f[j] = UNION {{<< d >> \o s : s \in f[j + d.bytes]} : d \in DecodeEntry(Rest(q, j - 1))}
      BY <1>1, <3>6 DEF WalkAt
    <3> HIDE DEF i
    <3>14. f[j] = {<< h >> \o s : s \in f[i]}
      <4> DEFINE G(d) == {<< d >> \o s : s \in f[j + d.bytes]}
      <4>a. f[j] = UNION {G(d) : d \in {h}} BY <3>9, <3>13
      <4> HIDE DEF G
      <4>b. f[j] = G(h) BY <4>a
      <4>1. f[j] = {<< h >> \o s : s \in f[j + h.bytes]} BY <4>b DEF G
      <4> QED BY <3>12, <4>1
    <3>15. f[j] = {<< h >> \o MapOf(Shortest, t)} BY <3>8, <3>14
    <3> QED BY <3>11, <3>15
  <2> QED BY <2>1, <2>2
<1>4. ASSUME NEW m \in 0 .. n, \A k \in 0 .. m - 1 : k \in T PROVE m \in T
  <2>1. Again(m) BY <1>3, <1>4
  <2> HIDE DEF Again
  <2> QED BY <2>1
<1>5. n \in T
  <2> HIDE DEF T
  <2>1. n \in 0 .. n OBVIOUS
  <2> QED BY <1>4, <2>1, FromBelow
<1> QED BY <1>5 DEF f, l

LEMMA BareIs ==
  ASSUME NEW e \in Entry
  PROVE  [e EXCEPT !.bytes = 0] = OfBytes(e, 0)
BY DEF Entry, OfBytes

LEMMA EntriesStayWhole ==
  ASSUME NEW p \in Seq(Fields)
  PROVE  EntriesAreWhole(p)
<1> DEFINE Bare(s) == [k \in DOMAIN s |-> [s[k] EXCEPT !.bytes = 0]]
<1> SUFFICES ASSUME NEW w \in WalkEntries(p)
             PROVE  /\ {Bare(s) : s \in WalkEntries(WriteEntries(w))} = {Bare(w)}
                    /\ Len(WriteEntries(w)) <= Len(p)
                    /\ Len(WriteEntries(w)) = Len(p) => WriteEntries(w) = p
  BY Zenon DEF EntriesAreWhole, WriteEntries
<1>0. Len(p) \in Nat BY FieldCells
<1> DEFINE q == WriteEntries(w)
<1>1. w \in Seq(AllEntries) /\ Fits(p, 1, Len(p) + 1, q)
  <2>1. w \in WalkFrom(p)[1] BY WalkIs
  <2>2. 1 \in 1 .. Len(p) + 1 BY <1>0
  <2> QED BY <2>1, <2>2, EntriesAreRead
<1>2. q \in Seq(Fields) BY <1>1, EntriesTyped
<1>3. Len(q) \in Nat BY <1>2
<1> HIDE DEF q
<1>4. 1 + Len(q) <= Len(p) + 1 /\ (1 + Len(q) = Len(p) + 1 => Has(p, 1, q)) BY <1>1 DEF Fits
<1>5. Len(q) <= Len(p) BY <1>0, <1>3, <1>4
<1>6. ASSUME Len(q) = Len(p) PROVE q = p
  <2>1. Has(p, 1, q) BY <1>4, <1>6
  <2>2. \A k \in 1 .. Len(q) : p[1 + k - 1] = q[k] BY <2>1 DEF Has
  <2>3. \A k \in 1 .. Len(q) : 1 + k - 1 = k OBVIOUS
  <2>4. \A k \in 1 .. Len(q) : q[k] = p[k] BY <2>2, <2>3
  <2> QED BY <1>2, <1>6, <2>4, SeqEqual
<1>7. WalkEntries(q) = {MapOf(Shortest, w)}
  <2>1. \A k \in 1 .. Len(q) : 1 + k - 1 = k OBVIOUS
  <2>2. Has(q, 1, q) BY <2>1 DEF Has
  <2>3. 1 \in 1 .. Len(q) + 1 /\ 1 + Len(q) = Len(q) + 1 /\ Len(w) \in Nat BY <1>1, <1>3
  <2> DEFINE n == Len(w)
  <2>4. n \in Nat /\ Len(w) = n BY <2>3
  <2> HIDE DEF n
  <2>5. \A v \in Seq(AllEntries), j \in 1 .. Len(q) + 1 :
          Len(v) = n /\ Has(q, j, WriteEntries(v)) /\ j + Len(WriteEntries(v)) = Len(q) + 1
            => WalkFrom(q)[j] = {MapOf(Shortest, v)}
    BY <1>2, <2>4, EntriesAreReadAgain
  <2>6. WalkFrom(q)[1] = {MapOf(Shortest, w)} BY <1>1, <2>2, <2>3, <2>4, <2>5 DEF q
  <2> QED BY <2>6, WalkIs
<1>8. Bare(MapOf(Shortest, w)) = Bare(w)
  <2> DEFINE u == MapOf(Shortest, w)
  <2>1. DOMAIN w = 1 .. Len(w) BY <1>1, LenProperties
  <2>2. DOMAIN u = DOMAIN w BY DEF MapOf
  <2>3. ASSUME NEW k \in DOMAIN w PROVE [u[k] EXCEPT !.bytes = 0] = [w[k] EXCEPT !.bytes = 0]
    <3> DEFINE e == w[k]
               h == u[k]
               m == Len(WriteHeapEntry(e))
    <3>1. e \in AllEntries BY <1>1, <2>1, ElementOfSeq
    <3>2. e \in Entry /\ Readable(e) BY <3>1 DEF AllEntries
    <3>3. h = OfBytes(e, m) BY <3>1 DEF MapOf, Shortest
    <3>4. m \in Nat BY <3>2, EntryIsWritten
    <3> HIDE DEF e, h, m
    <3>5. h \in Entry BY <3>2, <3>3, <3>4 DEF Entry, OfBytes
    <3>6. OfBytes(h, 0) = OfBytes(e, 0) BY <3>3 DEF OfBytes
    <3>7. [h EXCEPT !.bytes = 0] = [e EXCEPT !.bytes = 0] BY <3>2, <3>5, <3>6, BareIs
    <3> QED BY <3>7 DEF e, h
  <2> HIDE DEF u
  <2>4. Bare(u) = Bare(w) BY <2>2, <2>3
  <2> QED BY <2>4 DEF u
<1> HIDE DEF Bare
<1>9. {Bare(s) : s \in WalkEntries(q)} = {Bare(w)} BY <1>7, <1>8
<1> QED BY <1>5, <1>6, <1>9 DEF q

-----------------------------------------------------------------------------
(***************************************************************************)
(* Records and entries are whole.                                          *)
(***************************************************************************)

LEMMA StreamsAre ==
  ASSUME PayloadsInv, NEW p \in EntryStreams
  PROVE  p \in Seq(Fields)
<1>1. family = "entries" BY DEF EntryStreams
<1>2. 0 .. FieldMod - 1 = Fields BY DEF FieldMod, Fields
<1>3. payload \in Seq(Fields) BY <1>1, <1>2 DEF PayloadsInv, CellsOf
<1>4. PICK h \in EntryHeads : p = h \o payload BY <1>1 DEF EntryStreams
<1>5. h \in Seq(Fields) BY <1>2, EntryHeadsAssumption
<1>6. h \o payload \in Seq(Fields) BY <1>3, <1>5, ConcatProperties
<1> QED BY <1>4, <1>6

\* The records of every type list follow each other without a gap, each split into a
\* head, an inner part and a label, and only one shorter than its head ends the
\* program; what is kept of every stream of heap entries is enough to write it again,
\* in the same cells where all its numbers are in their shortest form.
THEOREM RecordsAlwaysWhole == Spec => []RecordsAreWhole
<1>1. ASSUME PayloadsInv PROVE RecordsAreWhole
  <2>1. \A r \in TypeLists : RecordsWhole(r) BY <1>1, ListsAreWhole
  <2>2. \A p \in EntryStreams : EntriesAreWhole(p) BY <1>1, StreamsAre, EntriesStayWhole
  <2> QED BY <2>1, <2>2, Zenon DEF RecordsAreWhole, RecordsWhole, Stands
<1> QED BY <1>1, PayloadsTyped, PTL

=============================================================================
