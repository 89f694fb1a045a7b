---------------------------- MODULE BoundsProofs ----------------------------
(***************************************************************************)
(* Accepted and validated files keep their tables in the info section, and *)
(* written files are accepted.  The first invariant follows the parse: the *)
(* header's sums hold once it was read, the position of the block table is *)
(* known once the list was read, and from then on no descriptor lies       *)
(* before that position.  The second compares each position of the parse   *)
(* with the place the layout gives it; the places are sums over the        *)
(* prefixes of the layout's lengths, so those come first.                  *)
(***************************************************************************)
EXTENDS Bounds, SequenceTheorems, WellFoundedInduction, TLAPS

-----------------------------------------------------------------------------
(***************************************************************************)
(* Sums.                                                                   *)
(***************************************************************************)

\* Induction over numbers, for a set of them.
LEMMA LeastNumber ==
  ASSUME NEW S \in SUBSET Nat, S # {}
  PROVE  \E m \in S : \A n \in S : m <= n
<1> DEFINE R == OpToRel(<, Nat)
<1>1. \A m, n \in Nat : << m, n >> \in R <=> m < n BY DEF OpToRel
<1>2. PICK m \in S : \A n \in S : << n, m >> \notin R
  <2> HIDE DEF R
  <2>1. IsWellFoundedOn(R, Nat) BY NatLessThanWellFounded DEF R
  <2> QED BY <2>1, WFMin, Zenon
<1> HIDE DEF R
<1>3. \A n \in S : n \in Nat /\ m \in Nat /\ ~(n < m) BY <1>1, <1>2
<1>4. \A n \in S : m <= n BY <1>3
<1> QED BY <1>4

LEMMA FromZeroOn ==
  ASSUME NEW S, 0 \in S, \A n \in Nat : n \in S => n + 1 \in S
  PROVE  Nat \subseteq S
<1> SUFFICES ASSUME NEW n \in Nat \ S PROVE FALSE
  OBVIOUS
<1>1. PICK m \in Nat \ S : \A k \in Nat \ S : m <= k BY LeastNumber
<1>2. m - 1 \in Nat BY <1>1
<1>3. m - 1 \in S BY <1>1, <1>2
<1> QED BY <1>1, <1>2, <1>3

\* The sums of the prefixes of a sequence of numbers.
IsSum(q, f) == f = [n \in 0 .. Len(q) |-> IF n = 0 THEN 0 ELSE f[n - 1] + q[n]]
Sums(q) == CHOOSE f : IsSum(q, f)

LEMMA SumsExist ==
  ASSUME NEW q \in Seq(Int)
  PROVE  IsSum(q, Sums(q))
<1> DEFINE l == Len(q)
           IsPart(m, f) == f = [n \in 0 .. m |-> IF n = 0 THEN 0 ELSE f[n - 1] + q[n]]
           S == {m \in Nat : m <= l => \E f : IsPart(m, f)}
<1>1. 0 \in S
  <2> DEFINE f == [n \in 0 .. 0 |-> 0]
  <2>1. IsPart(0, f)
    <3>1. \A n \in 0 .. 0 : n = 0 OBVIOUS
    <3> QED BY <3>1
  <2> QED BY <2>1
<1>2. ASSUME NEW m \in Nat, m \in S PROVE m + 1 \in S
  <2> SUFFICES ASSUME m + 1 <= l PROVE \E f : IsPart(m + 1, f)
    OBVIOUS
  <2>1. l \in Nat OBVIOUS
  <2> HIDE DEF l
  <2>2. PICK f : IsPart(m, f) BY <1>2, <2>1
  <2> DEFINE g == [n \in 0 .. m + 1 |-> IF n <= m THEN f[n] ELSE f[m] + q[m + 1]]
  <2>3. \A n \in 0 .. m : f[n] = IF n = 0 THEN 0 ELSE f[n - 1] + q[n] BY <2>2
  <2>4. ASSUME NEW n \in 0 .. m + 1
        PROVE  g[n] = IF n = 0 THEN 0 ELSE g[n - 1] + q[n]
    <3>1. CASE n = 0 BY <2>3, <3>1
    <3>2. CASE n \in 1 .. m BY <2>3, <3>2
    <3>3. CASE n = m + 1 BY <3>3
    <3> QED BY <3>1, <3>2, <3>3
  <2>5. g = [n \in DOMAIN g |-> g[n]] /\ DOMAIN g = 0 .. m + 1 OBVIOUS
  <2> HIDE DEF g
  <2>6. IsPart(m + 1, g) BY <2>4, <2>5
  <2> HIDE DEF IsPart
  <2> QED BY <2>6
<1>3. Nat \subseteq S
  <2> HIDE DEF S
  <2> QED BY <1>1, <1>2, FromZeroOn
<1>4. l \in S BY <1>3
<1>5. \E f : IsSum(q, f) BY <1>4 DEF IsSum
<1> QED BY <1>5 DEF Sums

LEMMA SumsAre ==
  ASSUME NEW q \in Seq(Int)
  PROVE  /\ Total(q) = Sums(q)[Len(q)]
         /\ Sums(q)[0] = 0
         /\ \A n \in 1 .. Len(q) : Sums(q)[n] = Sums(q)[n - 1] + q[n]
<1>1. Total(q) = Sums(q)[Len(q)] BY DEF Total, IsSum, Sums
<1>2. \A n \in 0 .. Len(q) : Sums(q)[n] = IF n = 0 THEN 0 ELSE Sums(q)[n - 1] + q[n]
  BY SumsExist DEF IsSum
<1> QED BY <1>1, <1>2

\* The sum of a prefix.
LEMMA TotalOfPrefix ==
  ASSUME NEW q \in Seq(Int), NEW m \in 0 .. Len(q)
  PROVE  Total(SubSeq(q, 1, m)) = Sums(q)[m]
<1> DEFINE p == SubSeq(q, 1, m)
           S == {n \in Nat : n <= m => Sums(p)[n] = Sums(q)[n]}
<1>1. p \in Seq(Int) /\ Len(p) = m /\ \A n \in 1 .. m : p[n] = q[n] OBVIOUS
<1> HIDE DEF p
<1>2. /\ Total(p) = Sums(p)[m] /\ Sums(p)[0] = 0 /\ Sums(q)[0] = 0
      /\ \A n \in 1 .. m : Sums(p)[n] = Sums(p)[n - 1] + p[n]
      /\ \A n \in 1 .. m : Sums(q)[n] = Sums(q)[n - 1] + q[n]
  <2>1. /\ Total(q) = Sums(q)[Len(q)] /\ Sums(q)[0] = 0
        /\ \A n \in 1 .. Len(q) : Sums(q)[n] = Sums(q)[n - 1] + q[n]
    BY SumsAre
  <2>2. /\ Total(p) = Sums(p)[Len(p)] /\ Sums(p)[0] = 0
        /\ \A n \in 1 .. Len(p) : Sums(p)[n] = Sums(p)[n - 1] + p[n]
    BY <1>1, SumsAre
  <2>3. 1 .. m \subseteq 1 .. Len(q) OBVIOUS
  <2> QED BY <1>1, <2>1, <2>2, <2>3
<1>3. 0 \in S BY <1>2
<1>4. \A n \in Nat : n \in S => n + 1 \in S BY <1>1, <1>2
<1>5. Nat \subseteq S
  <2> HIDE DEF S
  <2> QED BY <1>3, <1>4, FromZeroOn
<1>6. m \in S BY <1>5
<1> QED BY <1>2, <1>6 DEF p

\* Sums of numbers are numbers, and each prefix adds one.
LEMMA TotalGrows ==
  ASSUME NEW q \in Seq(Nat)
  PROVE  /\ Total(q) \in Nat
         /\ \A m \in 0 .. Len(q) : Total(SubSeq(q, 1, m)) \in 0 .. Total(q)
         /\ Total(SubSeq(q, 1, 0)) = 0 /\ Total(SubSeq(q, 1, Len(q))) = Total(q)
         /\ \A m \in 1 .. Len(q) :
              Total(SubSeq(q, 1, m)) = Total(SubSeq(q, 1, m - 1)) + q[m]
<1> DEFINE l == Len(q)
           s(m) == Total(SubSeq(q, 1, m))
           S == {n \in Nat : n <= l => s(n) \in Nat /\ s(l - n) <= s(l)}
<1>1. l \in Nat /\ q \in Seq(Int) /\ \A n \in 1 .. l : q[n] \in Nat OBVIOUS
<1>2. /\ s(0) = 0 /\ s(l) = Total(q)
      /\ \A n \in 1 .. l : s(n) = s(n - 1) + q[n]
  <2>1. \A m \in 0 .. l : s(m) = Sums(q)[m] BY <1>1, TotalOfPrefix
  <2>2. Total(q) = Sums(q)[l] /\ Sums(q)[0] = 0
        /\ \A n \in 1 .. l : Sums(q)[n] = Sums(q)[n - 1] + q[n]
    BY <1>1, SumsAre
  <2>3. 0 \in 0 .. l /\ l \in 0 .. l /\ \A n \in 1 .. l : n \in 0 .. l /\ n - 1 \in 0 .. l
    BY <1>1
  <2> HIDE DEF l, s
  <2>4. s(0) = 0 /\ s(l) = Total(q) BY <2>1, <2>2, <2>3
  <2>5. ASSUME NEW n \in 1 .. l PROVE s(n) = s(n - 1) + q[n] BY <2>1, <2>2, <2>3
  <2> QED BY <2>4, <2>5
<1> HIDE DEF l, s
<1> DEFINE N == {n \in Nat : n <= l => s(n) \in Nat}
<1>3. Nat \subseteq N
  <2>1. 0 \in N BY <1>2
  <2>2. \A n \in Nat : n \in N => n + 1 \in N BY <1>1, <1>2
  <2> HIDE DEF N
  <2> QED BY <2>1, <2>2, FromZeroOn
<1>4. \A n \in 0 .. l : s(n) \in Nat BY <1>1, <1>3
<1> DEFINE M == {n \in Nat : n <= l => s(l - n) <= s(l)}
<1>5. Nat \subseteq M
  <2>1. 0 \in M
    <3>1. l - 0 = l /\ s(l) \in Nat BY <1>1, <1>4
    <3> QED BY <3>1
  <2>2. ASSUME NEW n \in Nat, n \in M PROVE n + 1 \in M
    <3> SUFFICES ASSUME n + 1 <= l PROVE s(l - (n + 1)) <= s(l)
      OBVIOUS
    <3>1. l - n \in 1 .. l /\ (l - n) - 1 = l - (n + 1) BY <1>1
    <3>2. s(l - n) = s(l - (n + 1)) + q[l - n] BY <1>2, <3>1
    <3>3. q[l - n] \in Nat /\ s(l - n) \in Nat /\ s(l - (n + 1)) \in Nat /\ s(l) \in Nat
      BY <1>1, <1>4, <3>1
    <3>4. s(l - n) <= s(l) BY <1>1, <2>2
    <3> QED BY <3>2, <3>3, <3>4
  <2> HIDE DEF M
  <2> QED BY <2>1, <2>2, FromZeroOn
<1>6. ASSUME NEW m \in 0 .. l PROVE s(m) <= s(l)
  <2>1. l - m \in Nat /\ l - m <= l /\ l - (l - m) = m BY <1>1
  <2> QED BY <1>5, <2>1
<1> QED BY <1>1, <1>2, <1>4, <1>6 DEF l, s

-----------------------------------------------------------------------------
(***************************************************************************)
(* Layouts.  What lies in front of a block or of a payload is the sum of a *)
(* prefix of the lengths.                                                  *)
(***************************************************************************)

Stores(lens) == [k \in DOMAIN lens |-> Stored(lens[k])]
Regions(bs) == [i \in DOMAIN bs |-> StoredBlock(bs[i])]
Lengths(bs) == [i \in DOMAIN bs |-> Len(bs[i])]

LEMMA SizesType ==
  /\ WordMod \in Nat \ {0} /\ HeaderSize \in Nat \ {0} /\ ListSize \in Nat \ {0}
  /\ CountSize \in Nat \ {0} /\ BlockSize \in Nat \ {0} /\ SectionSize \in Nat \ {0}
  /\ LenSize \in Nat \ {0} /\ MaxPayload \in Nat /\ MaxBlocks \in Nat
  /\ MaxSections \in Nat /\ HeaderSize < WordMod
BY SizesAssumption

LEMMA Division ==
  ASSUME NEW a \in Nat, NEW m \in Nat \ {0}
  PROVE  /\ a \div m \in Nat /\ a % m \in 0 .. m - 1
         /\ a = m * (a \div m) + (a % m)
OBVIOUS

\* A stored payload has room for its length word and its bytes.
LEMMA StoredSize ==
  ASSUME NEW len \in Nat
  PROVE  Stored(len) \in Nat /\ Stored(len) >= LenSize + len
<1> DEFINE a == len + 2 * LenSize - 1
           d == LenSize * (a \div LenSize)
<1>1. LenSize \in Nat \ {0} BY SizesType
<1>2. a \in Nat BY <1>1
<1> HIDE DEF a
<1>3. /\ a \div LenSize \in Nat /\ a % LenSize \in 0 .. LenSize - 1
      /\ a = d + (a % LenSize)
  BY <1>1, <1>2, Division
<1>4. d \in Nat BY <1>1, <1>3
<1>5. d = Stored(len) BY DEF Stored, a
<1> HIDE DEF d
<1>6. d >= LenSize + len BY <1>1, <1>3, <1>4 DEF a
<1> QED BY <1>4, <1>5, <1>6

LEMMA PrefixIs ==
  ASSUME NEW q \in Seq(Nat), NEW m \in 0 .. Len(q), NEW p,
         p = [k \in 1 .. m |-> p[k]], \A k \in 1 .. m : p[k] = q[k]
  PROVE  p = SubSeq(q, 1, m)
<1> DEFINE r == SubSeq(q, 1, m)
<1>1. r = [k \in 1 .. m |-> r[k]] /\ \A k \in 1 .. m : r[k] = q[k] OBVIOUS
<1> HIDE DEF r
<1>2. p = r BY <1>1
<1> QED BY <1>2 DEF r

\* The payloads of a block.
LEMMA StoredBlockIs ==
  ASSUME NEW lens \in Seq(Nat)
  PROVE  /\ Stores(lens) \in Seq(Nat) /\ Len(Stores(lens)) = Len(lens)
         /\ StoredBlock(lens) \in Nat
         /\ \A k \in 1 .. Len(lens) :
              StoredBlock(SubSeq(lens, 1, k - 1)) + Stored(lens[k]) <= StoredBlock(lens)
         /\ \A k \in 1 .. Len(lens) : StoredBlock(SubSeq(lens, 1, k - 1)) \in Nat
<1>1. ASSUME NEW k \in 1 .. Len(lens) PROVE lens[k] \in Nat /\ Stored(lens[k]) \in Nat
  <2>1. lens[k] \in Nat OBVIOUS
  <2> QED BY <2>1, StoredSize
<1>2. Stores(lens) \in Seq(Nat) /\ Len(Stores(lens)) = Len(lens)
  <2>1. Stores(lens) = [k \in 1 .. Len(lens) |-> Stored(lens[k])] BY DEF Stores
  <2>2. Len(lens) \in Nat OBVIOUS
  <2> QED BY <1>1, <2>1, <2>2
<1>3. StoredBlock(lens) = Total(Stores(lens)) BY DEF StoredBlock, Stores
<1>4. ASSUME NEW k \in 1 .. Len(lens)
      PROVE  /\ StoredBlock(SubSeq(lens, 1, k - 1)) = Total(SubSeq(Stores(lens), 1, k - 1))
             /\ Stores(lens)[k] = Stored(lens[k])
             /\ Stored(lens[k]) \in Nat
  <2> DEFINE p == SubSeq(lens, 1, k - 1)
  <2>1. DOMAIN p = 1 .. k - 1 /\ \A j \in 1 .. k - 1 : p[j] = lens[j] OBVIOUS
  <2> HIDE DEF p
  <2>2. \A j \in 1 .. k - 1 : Stores(p)[j] = Stores(lens)[j]
    BY <2>1 DEF Stores
  <2>3. Stores(p) = [j \in 1 .. k - 1 |-> Stores(p)[j]] BY <2>1 DEF Stores
  <2>4. k - 1 \in 0 .. Len(Stores(lens)) BY <1>2
  <2>5. Stores(p) = SubSeq(Stores(lens), 1, k - 1)
    BY <1>2, <2>2, <2>3, <2>4, PrefixIs
  <2>6. StoredBlock(p) = Total(Stores(p)) BY DEF StoredBlock, Stores
  <2>7. Stores(lens)[k] = Stored(lens[k]) BY DEF Stores
  <2> QED BY <1>1, <2>5, <2>6, <2>7 DEF p
<1>5. ASSUME NEW k \in 1 .. Len(lens)
      PROVE  /\ StoredBlock(SubSeq(lens, 1, k - 1)) + Stored(lens[k]) <= StoredBlock(lens)
             /\ StoredBlock(SubSeq(lens, 1, k - 1)) \in Nat
  <2> DEFINE t(j) == Total(SubSeq(Stores(lens), 1, j))
             T == Total(Stores(lens))
  <2>1. T \in Nat /\ t(k - 1) \in 0 .. T /\ t(k) \in 0 .. T
        /\ t(k) = t(k - 1) + Stores(lens)[k]
    <3>1. k \in 1 .. Len(Stores(lens)) /\ k - 1 \in 0 .. Len(Stores(lens))
          /\ k \in 0 .. Len(Stores(lens))
      BY <1>2
    <3> QED BY <1>2, <3>1, TotalGrows
  <2> HIDE DEF t, T
  <2>2. t(k - 1) + Stored(lens[k]) <= T /\ t(k - 1) \in Nat BY <1>4, <2>1
  <2> QED BY <1>3, <1>4, <2>2 DEF t, T
<1>6. StoredBlock(lens) \in Nat BY <1>2, <1>3, TotalGrows
<1> QED BY <1>2, <1>5, <1>6

\* A payload is laid out within the data region.
LEMMA RegionHolds ==
  ASSUME NEW bs \in Seq(Seq(Nat))
  PROVE  /\ Region(bs) \in Nat
         /\ \A i \in 1 .. Len(bs) :
              /\ Region(SubSeq(bs, 1, i - 1)) \in Nat
              /\ Region(SubSeq(bs, 1, i - 1)) + StoredBlock(bs[i]) <= Region(bs)
<1>1. \A i \in 1 .. Len(bs) : bs[i] \in Seq(Nat) /\ StoredBlock(bs[i]) \in Nat
  BY StoredBlockIs
<1>2. Regions(bs) \in Seq(Nat) /\ Len(Regions(bs)) = Len(bs)
  <2>1. Regions(bs) = [i \in 1 .. Len(bs) |-> StoredBlock(bs[i])] BY DEF Regions
  <2>2. Len(bs) \in Nat OBVIOUS
  <2> QED BY <1>1, <2>1, <2>2
<1>3. Region(bs) = Total(Regions(bs)) BY DEF Region, Regions
<1>4. ASSUME NEW i \in 1 .. Len(bs)
      PROVE  /\ Region(SubSeq(bs, 1, i - 1)) = Total(SubSeq(Regions(bs), 1, i - 1))
             /\ Regions(bs)[i] = StoredBlock(bs[i])
  <2> DEFINE p == SubSeq(bs, 1, i - 1)
  <2>1. DOMAIN p = 1 .. i - 1 /\ \A j \in 1 .. i - 1 : p[j] = bs[j] OBVIOUS
  <2> HIDE DEF p
  <2>2. \A j \in 1 .. i - 1 : Regions(p)[j] = Regions(bs)[j] BY <2>1 DEF Regions
  <2>3. Regions(p) = [j \in 1 .. i - 1 |-> Regions(p)[j]] BY <2>1 DEF Regions
  <2>4. i - 1 \in 0 .. Len(Regions(bs)) BY <1>2
  <2>5. Regions(p) = SubSeq(Regions(bs), 1, i - 1)
    BY <1>2, <2>2, <2>3, <2>4, PrefixIs
  <2>6. Region(p) = Total(Regions(p)) BY DEF Region, Regions
  <2>7. Regions(bs)[i] = StoredBlock(bs[i]) BY DEF Regions
  <2> QED BY <2>5, <2>6, <2>7 DEF p
<1>5. ASSUME NEW i \in 1 .. Len(bs)
      PROVE  /\ Region(SubSeq(bs, 1, i - 1)) \in Nat
             /\ Region(SubSeq(bs, 1, i - 1)) + StoredBlock(bs[i]) <= Region(bs)
  <2> DEFINE t(j) == Total(SubSeq(Regions(bs), 1, j))
             T == Total(Regions(bs))
  <2>1. T \in Nat /\ t(i - 1) \in 0 .. T /\ t(i) \in 0 .. T
        /\ t(i) = t(i - 1) + Regions(bs)[i]
    <3>1. i \in 1 .. Len(Regions(bs)) /\ i - 1 \in 0 .. Len(Regions(bs))
          /\ i \in 0 .. Len(Regions(bs))
      BY <1>2
    <3> QED BY <1>2, <3>1, TotalGrows
  <2>2. StoredBlock(bs[i]) \in Nat BY <1>1
  <2> HIDE DEF t, T
  <2>3. t(i - 1) + StoredBlock(bs[i]) <= T /\ t(i - 1) \in Nat BY <1>4, <2>1, <2>2
  <2> QED BY <1>3, <1>4, <2>3 DEF t, T
<1>6. Region(bs) \in Nat BY <1>2, <1>3, TotalGrows
<1> QED BY <1>5, <1>6

\* The descriptors of a block follow those of the blocks in front of it.
LEMMA DescriptorsGrow ==
  ASSUME NEW bs \in Seq(Seq(Nat))
  PROVE  /\ Descriptors(bs) \in Nat /\ Descriptors(SubSeq(bs, 1, 0)) = 0
         /\ Descriptors(SubSeq(bs, 1, Len(bs))) = Descriptors(bs)
         /\ \A i \in 0 .. Len(bs) : Descriptors(SubSeq(bs, 1, i)) \in 0 .. Descriptors(bs)
         /\ \A i \in 1 .. Len(bs) :
              Descriptors(SubSeq(bs, 1, i)) =
                Descriptors(SubSeq(bs, 1, i - 1)) + SectionSize * Len(bs[i])
<1> DEFINE t(j) == Total(SubSeq(Lengths(bs), 1, j))
           T == Total(Lengths(bs))
<1>1. \A i \in 1 .. Len(bs) : Len(bs[i]) \in Nat OBVIOUS
<1>2. /\ Lengths(bs) \in Seq(Nat) /\ Len(Lengths(bs)) = Len(bs)
      /\ \A i \in 1 .. Len(bs) : Lengths(bs)[i] = Len(bs[i])
  <2>1. Lengths(bs) = [i \in 1 .. Len(bs) |-> Len(bs[i])] BY DEF Lengths
  <2>2. Len(bs) \in Nat OBVIOUS
  <2> QED BY <1>1, <2>1, <2>2
<1>3. ASSUME NEW i \in 0 .. Len(bs)
      PROVE  Descriptors(SubSeq(bs, 1, i)) = SectionSize * t(i)
  <2> DEFINE p == SubSeq(bs, 1, i)
  <2>1. DOMAIN p = 1 .. i /\ \A j \in 1 .. i : p[j] = bs[j] OBVIOUS
  <2> HIDE DEF p
  <2>2. \A j \in 1 .. i : Lengths(p)[j] = Lengths(bs)[j] BY <2>1 DEF Lengths
  <2>3. Lengths(p) = [j \in 1 .. i |-> Lengths(p)[j]] BY <2>1 DEF Lengths
  <2>4. i \in 0 .. Len(Lengths(bs)) BY <1>2
  <2> DEFINE q == Lengths(bs)
             s == Lengths(p)
  <2>5. s = SubSeq(q, 1, i)
    <3>1. /\ q \in Seq(Nat) /\ i \in 0 .. Len(q)
          /\ s = [j \in 1 .. i |-> s[j]] /\ \A j \in 1 .. i : s[j] = q[j]
      BY <1>2, <2>2, <2>3, <2>4
    <3> HIDE DEF q, s
    <3> QED BY <3>1, PrefixIs
  <2>6. Descriptors(p) = SectionSize * Total(Lengths(p)) BY DEF Descriptors, Lengths
  <2> QED BY <2>5, <2>6 DEF p
<1>4. Descriptors(bs) = SectionSize * T BY DEF Descriptors, Lengths
<1>5. /\ T \in Nat /\ t(0) = 0 /\ t(Len(bs)) = T
      /\ \A i \in 0 .. Len(bs) : t(i) \in 0 .. T
      /\ \A i \in 1 .. Len(bs) : t(i) = t(i - 1) + Lengths(bs)[i]
  BY <1>2, TotalGrows
<1> HIDE DEF t, T
<1>6. SectionSize \in Nat BY SizesType
<1>7. ASSUME NEW a \in Nat, NEW b \in 0 .. a PROVE SectionSize * b \in 0 .. SectionSize * a
  BY <1>6
<1>8. ASSUME NEW a \in Nat, NEW b \in Nat
      PROVE  SectionSize * (a + b) = SectionSize * a + SectionSize * b
  BY <1>6
<1>9. /\ Descriptors(bs) \in Nat /\ Descriptors(SubSeq(bs, 1, 0)) = 0
      /\ Descriptors(SubSeq(bs, 1, Len(bs))) = Descriptors(bs)
  <2>1. 0 \in 0 .. Len(bs) /\ Len(bs) \in 0 .. Len(bs)
        /\ SectionSize * 0 = 0 /\ SectionSize * T \in Nat
    BY <1>5, <1>6
  <2> QED BY <1>3, <1>4, <1>5, <2>1
<1>10. ASSUME NEW i \in 0 .. Len(bs)
       PROVE  Descriptors(SubSeq(bs, 1, i)) \in 0 .. Descriptors(bs)
  BY <1>3, <1>4, <1>5, <1>7
<1>11. ASSUME NEW i \in 1 .. Len(bs)
       PROVE  Descriptors(SubSeq(bs, 1, i)) =
                Descriptors(SubSeq(bs, 1, i - 1)) + SectionSize * Len(bs[i])
  <2>1. i \in 0 .. Len(bs) /\ i - 1 \in 0 .. Len(bs) OBVIOUS
  <2>2. t(i - 1) \in Nat /\ Len(bs[i]) \in Nat /\ t(i) = t(i - 1) + Len(bs[i])
    BY <1>1, <1>2, <1>5, <2>1
  <2>3. SectionSize * t(i) = SectionSize * t(i - 1) + SectionSize * Len(bs[i])
    BY <1>8, <2>2
  <2> QED BY <1>3, <2>1, <2>2, <2>3
<1> QED BY <1>9, <1>10, <1>11

LEMMA LayoutType ==
  ASSUME NEW l \in Layouts
  PROVE  /\ l.blocks \in Seq(Seq(Nat)) /\ Len(l.blocks) \in Nat \ {0}
         /\ \A i \in 1 .. Len(l.blocks) :
              /\ Len(l.blocks[i]) \in Nat \ {0}
              /\ \A k \in 1 .. Len(l.blocks[i]) : l.blocks[i][k] \in Nat
         /\ Region(l.blocks) \in Nat
         /\ TableAt(l) \in Nat /\ FileSize(l) \in Nat
         /\ HeaderSize + Region(l.blocks) + HeaderSize + ListSize + CountSize
              + BlockSize * Len(l.blocks) <= TableAt(l)
         /\ TableAt(l) <= FileSize(l)
<1>1. PICK bs \in Seq(Seq(Nat) \ {<< >>}) \ {<< >>}, n \in Nat, t \in Nat :
        l = [blocks |-> bs, names |-> n, tail |-> t]
  BY LayoutsAssumption
<1>2. bs \in Seq(Seq(Nat)) /\ bs # << >> /\ \A i \in 1 .. Len(bs) : bs[i] \in Seq(Nat) \ {<< >>}
  OBVIOUS
<1>3. Len(bs) \in Nat \ {0} BY <1>2, EmptySeq
<1>4. ASSUME NEW i \in 1 .. Len(bs)
      PROVE  Len(bs[i]) \in Nat \ {0} /\ \A k \in 1 .. Len(bs[i]) : bs[i][k] \in Nat
  <2>1. PICK b \in Seq(Nat) : b = bs[i] /\ b # << >> BY <1>2
  <2>2. Len(b) \in Nat \ {0} /\ \A k \in 1 .. Len(b) : b[k] \in Nat BY <2>1, EmptySeq
  <2> QED BY <2>1, <2>2
<1>5. Region(bs) \in Nat /\ Descriptors(bs) \in Nat
  BY <1>2, RegionHolds, DescriptorsGrow
<1>6. BlockSize * Len(bs) \in Nat BY <1>3, SizesType
<1> DEFINE h == BlockSize * Len(bs)
<1>7. h \in Nat BY <1>6
<1>8. TableAt(l) = HeaderSize + Region(bs) + HeaderSize + ListSize + CountSize + h
                     + Descriptors(bs)
  BY <1>1 DEF TableAt
<1>9. FileSize(l) = TableAt(l) + n + t BY <1>1 DEF FileSize
<1>10. l.blocks = bs BY <1>1
<1> DEFINE r == Region(bs)
           d == Descriptors(bs)
           T == TableAt(l)
           F == FileSize(l)
<1> HIDE DEF h, r, d, T, F
<1>11. /\ T \in Nat /\ F \in Nat /\ T <= F
       /\ HeaderSize + r + HeaderSize + ListSize + CountSize + h <= T
  <2>1. T = HeaderSize + r + HeaderSize + ListSize + CountSize + h + d
    BY <1>8 DEF T, r, d
  <2>2. F = T + n + t BY <1>9 DEF T, F
  <2>3. r \in Nat /\ d \in Nat BY <1>5 DEF r, d
  <2> QED BY <1>7, <2>1, <2>2, <2>3, SizesType
<1>12. /\ TableAt(l) \in Nat /\ FileSize(l) \in Nat /\ TableAt(l) <= FileSize(l)
       /\ HeaderSize + Region(bs) + HeaderSize + ListSize + CountSize + h <= TableAt(l)
  BY <1>11 DEF T, F, r
<1> QED BY <1>2, <1>3, <1>4, <1>5, <1>10, <1>12 DEF h

LEMMA WrittenHeaderType ==
  ASSUME NEW l \in Layouts
  PROVE  WrittenHeader(l) \in
           [ infoOff : 0 .. WordMod - 1, infoSize : 0 .. WordMod - 1,
             dataOff : 0 .. WordMod - 1, dataSize : 0 .. WordMod - 1 ]
<1>1. \A a \in Nat : a % WordMod \in 0 .. WordMod - 1 BY Division, SizesType
<1>2. /\ HeaderSize + Region(l.blocks) \in Nat /\ Region(l.blocks) \in Nat
      /\ FileSize(l) - HeaderSize - Region(l.blocks) \in Nat
      /\ HeaderSize \in 0 .. WordMod - 1
  <2> DEFINE h == BlockSize * Len(l.blocks)
  <2>1. h \in Nat BY LayoutType, SizesType
  <2>2. HeaderSize + Region(l.blocks) + HeaderSize + ListSize + CountSize + h <= TableAt(l)
    BY LayoutType
  <2> HIDE DEF h
  <2> QED BY <2>1, <2>2, LayoutType, SizesType
<1> QED BY <1>1, <1>2 DEF WrittenHeader

\* Where the descriptors of a block are is stated in a word.
LEMMA BlockOffsetType ==
  ASSUME NEW l \in Layouts, NEW i \in 1 .. Len(l.blocks)
  PROVE  BlockOffset(l.blocks, i) \in Nat
<1> DEFINE h == BlockSize * Len(l.blocks)
           d == Descriptors(SubSeq(l.blocks, 1, i - 1))
           a == CountSize + h + d
<1>1. h \in Nat BY LayoutType, SizesType
<1>2. d \in Nat
  <2>1. i - 1 \in 0 .. Len(l.blocks) BY LayoutType
  <2> QED BY <2>1, LayoutType, DescriptorsGrow
<1>3. BlockOffset(l.blocks, i) = (CountSize + h + d) % WordMod BY DEF BlockOffset
<1> HIDE DEF h, d
<1>4. a \in Nat BY <1>1, <1>2, SizesType
<1> HIDE DEF a
<1>5. a % WordMod \in Nat BY <1>4, Division, SizesType
<1> QED BY <1>3, <1>5 DEF a

-----------------------------------------------------------------------------
(***************************************************************************)
(* The inductive invariant.                                                *)
(***************************************************************************)

Word == 0 .. WordMod - 1

InputInv ==
  /\ size \in Nat
  /\ hdr \in [infoOff : Word, infoSize : Word, dataOff : Word, dataSize : Word]
  /\ \/ layout = Arbitrary
     \/ layout \in Layouts /\ size = FileSize(layout) /\ hdr = WrittenHeader(layout)

HeaderInv == pc \notin {"header", "rejected"} => HeaderFits

TableInv ==
  pc \in {"count", "block", "section", "accepted"} =>
    listOff \in Nat /\ pos = TablePosition(listOff)

BlocksInv ==
  pc \in {"block", "section"} =>
    /\ blocks \in Nat
    /\ pc = "section" => blocks > 0
    /\ Known => blocks <= Len(layout.blocks)

LowestInv ==
  pc \in {"block", "section", "accepted"} => lowest \in Int /\ lowest >= pos

NamesInv == pc = "accepted" => NamesFit

\* What holds in every state of a parse, and is preserved by each step.
BoundsInv ==
  /\ InputInv /\ HeaderInv /\ TableInv /\ BlocksInv /\ LowestInv /\ NamesInv

-----------------------------------------------------------------------------

\* A remainder is a number below the modulus, and small numbers are their own.
LEMMA Remainder ==
  ASSUME NEW a \in Nat, NEW m \in Nat, m > 0
  PROVE  a % m \in Nat /\ (a < m => a % m = a)
  OBVIOUS

\* The position of the block table is a number.
LEMMA PositionType ==
  ASSUME InputInv, NEW w \in Nat
  PROVE  TablePosition(w) \in Nat
<1>1. hdr.infoOff \in 0 .. WordMod - 1
  BY DEF InputInv, Word
<1>2. WordMod \in Nat /\ WordMod > 0 /\ hdr.infoOff + w \in Nat
  BY <1>1, SizesType
<1> QED
  BY <1>2, Remainder DEF TablePosition

LEMMA InitInv == Init => BoundsInv
<1> SUFFICES ASSUME Init PROVE BoundsInv
  OBVIOUS
<1>1. InputInv
  <2>1. CASE layout = Arbitrary /\ size \in Sizes /\ hdr \in Headers
    BY <2>1, InputsAssumption DEF InputInv, Word
  <2>2. CASE layout \in Layouts /\ size = FileSize(layout) /\ hdr = WrittenHeader(layout)
    BY <2>2, LayoutType, WrittenHeaderType DEF InputInv, Word
  <2> QED
    BY <2>1, <2>2 DEF Init
<1> QED
  BY <1>1 DEF Init, BoundsInv, HeaderInv, TableInv, BlocksInv, LowestInv, NamesInv

\* Refusing the file, or waiting at the end, disturbs nothing.
LEMMA RejectInv == BoundsInv /\ Reject => BoundsInv'
  BY DEF BoundsInv, Reject, InputInv, HeaderInv, TableInv, BlocksInv, LowestInv, NamesInv

LEMMA DoneInv == BoundsInv /\ UNCHANGED vars => BoundsInv'
  BY DEF BoundsInv, vars, InputInv, HeaderInv, TableInv, BlocksInv, LowestInv, NamesInv,
         HeaderFits, Readable, InfoEnd, TablePosition, Known, NamesFit

\* The input is not written to, and what was read of it stays true.
LEMMA GotoInv ==
  ASSUME NEW step, Goto(step), BoundsInv
  PROVE  /\ InputInv' /\ pc' = step /\ Known' = Known /\ layout' = layout
         /\ HeaderFits => HeaderFits'
         /\ InfoEnd' = InfoEnd
         /\ \A w : TablePosition(w)' = TablePosition(w)
  BY DEF Goto, BoundsInv, InputInv, HeaderFits, Readable, InfoEnd, TablePosition, Known

LEMMA HeaderStep == BoundsInv /\ ParseHeader => BoundsInv'
<1> SUFFICES ASSUME BoundsInv, ParseHeader PROVE BoundsInv'
  OBVIOUS
<1>1. CASE Reject
  BY <1>1, RejectInv
<1>2. CASE HeaderFits /\ Goto("list")
  BY <1>2, GotoInv DEF BoundsInv, HeaderInv, TableInv, BlocksInv, LowestInv, NamesInv
<1> QED
  BY <1>1, <1>2 DEF ParseHeader

LEMMA ListStep == BoundsInv /\ ParseBlockInfoList => BoundsInv'
<1> SUFFICES ASSUME BoundsInv, ParseBlockInfoList PROVE BoundsInv'
  OBVIOUS
<1>1. CASE Reject
  BY <1>1, RejectInv
<1>2. CASE ~Reject
  <2>1. PICK w \in ListOffsets :
          /\ Goto("count") /\ listOff' = w /\ pos' = TablePosition(w)
    BY <1>2 DEF ParseBlockInfoList
  <2>2. w \in Nat
    BY <2>1, SizesType, InputsAssumption DEF ListOffsets
  <2>3. HeaderFits
    BY <1>2 DEF ParseBlockInfoList, BoundsInv, HeaderInv
  <2> QED
    BY <2>1, <2>2, <2>3, GotoInv
    DEF BoundsInv, HeaderInv, TableInv, BlocksInv, LowestInv, NamesInv
<1> QED
  BY <1>1, <1>2

LEMMA CountStep == BoundsInv /\ ParseCount => BoundsInv'
<1> SUFFICES ASSUME BoundsInv, ParseCount PROVE BoundsInv'
  OBVIOUS
<1>1. CASE Reject
  BY <1>1, RejectInv
<1>2. CASE ~Reject
  <2>1. PICK n \in Counts :
          /\ Goto("block") /\ blocks' = n /\ lowest' = pos
          /\ UNCHANGED << listOff, pos >>
    BY <1>2 DEF ParseCount
  <2>2. n \in Nat /\ (Known => n <= Len(layout.blocks))
    <3>1. CASE Known
      BY <2>1, <3>1, LayoutType DEF Counts, Known, BoundsInv, InputInv
    <3>2. CASE ~Known
      BY <2>1, <3>2, SizesType DEF Counts
    <3> QED
      BY <3>1, <3>2
  <2>3. /\ HeaderFits /\ listOff \in Nat /\ pos = TablePosition(listOff)
        /\ pos \in Nat
    BY PositionType DEF ParseCount, BoundsInv, HeaderInv, TableInv
  <2> QED
    BY <2>1, <2>2, <2>3, GotoInv
    DEF BoundsInv, HeaderInv, TableInv, BlocksInv, LowestInv, NamesInv
<1> QED
  BY <1>1, <1>2

\* Only this step reads where a block says its descriptors are: the place is
\* counted from the table, so it is not before it.
LEMMA BlockStep == BoundsInv /\ ParseBlock => BoundsInv'
<1> SUFFICES ASSUME BoundsInv, ParseBlock PROVE BoundsInv'
  OBVIOUS
<1>1. CASE Reject
  BY <1>1, RejectInv
<1>2. CASE ~Reject
  <2>1. PICK w \in BlockWords :
          /\ Goto("section") /\ lowest' = LowerOf(lowest, pos + w[1])
          /\ UNCHANGED << listOff, pos, blocks >>
    BY <1>2 DEF ParseBlock
  <2>2. /\ HeaderFits /\ listOff \in Nat /\ pos = TablePosition(listOff)
        /\ pos \in Nat /\ lowest \in Int /\ lowest >= pos
        /\ blocks \in Nat /\ blocks > 0 /\ (Known => blocks <= Len(layout.blocks))
    BY PositionType DEF ParseBlock, BoundsInv, HeaderInv, TableInv, BlocksInv, LowestInv
  <2>3. w[1] \in Nat
    <3>1. CASE Known
      <4>1. layout \in Layouts /\ Len(layout.blocks) \in Nat
        BY <3>1, LayoutType DEF Known, BoundsInv, InputInv
      <4>2. Index \in 1 .. Len(layout.blocks)
        BY <2>2, <3>1, <4>1 DEF Index
      <4>3. w[1] = BlockOffset(layout.blocks, Index)
        BY <2>1, <3>1 DEF BlockWords
      <4> QED
        BY <4>1, <4>2, <4>3, BlockOffsetType
    <3>2. CASE ~Known
      <4>1. w \in Words \X (1 .. MaxSections + 1)
        BY <2>1, <3>2 DEF BlockWords
      <4>2. w[1] \in Words
        BY <4>1
      <4>3. \A x \in Words : x \in Nat
        BY SizesType, InputsAssumption
      <4> QED
        BY <4>2, <4>3, Zenon
    <3> QED
      BY <3>1, <3>2
  <2>4. lowest' \in Int /\ lowest' >= pos'
    BY <2>1, <2>2, <2>3 DEF LowerOf
  <2> QED
    BY <2>1, <2>2, <2>4, GotoInv
    DEF BoundsInv, HeaderInv, TableInv, BlocksInv, LowestInv, NamesInv
<1> QED
  BY <1>1, <1>2

LEMMA SectionStep == BoundsInv /\ ParseSection => BoundsInv'
<1> SUFFICES ASSUME BoundsInv, ParseSection PROVE BoundsInv'
  OBVIOUS
<1>1. CASE Reject
  BY <1>1, RejectInv
<1>2. CASE ~Reject
  <2>1. /\ Goto(IF sections = 1 THEN "block" ELSE "section")
        /\ blocks' = IF sections = 1 THEN blocks - 1 ELSE blocks
        /\ UNCHANGED << listOff, pos, lowest >>
    BY <1>2 DEF ParseSection
  <2>2. /\ HeaderFits /\ listOff \in Nat /\ pos = TablePosition(listOff)
        /\ lowest \in Int /\ lowest >= pos
        /\ blocks \in Nat /\ blocks > 0 /\ (Known => blocks <= Len(layout.blocks))
    BY DEF ParseSection, BoundsInv, HeaderInv, TableInv, BlocksInv, LowestInv
  <2>3. /\ InputInv' /\ HeaderFits' /\ Known' = Known /\ layout' = layout
        /\ pos' = TablePosition(listOff)' /\ listOff' \in Nat
    BY <2>1, <2>2, GotoInv
  <2>4. CASE sections = 1
    <3>1. blocks' \in Nat /\ (Known' => blocks' <= Len(layout'.blocks))
      <4>1. CASE Known
        BY <2>1, <2>2, <2>3, <2>4, <4>1, LayoutType DEF BoundsInv, InputInv, Known
      <4>2. CASE ~Known
        BY <2>1, <2>2, <2>3, <2>4, <4>2
      <4> QED
        BY <4>1, <4>2
    <3>2. pc' = "block"
      BY <2>1, <2>4 DEF Goto
    <3> QED
      BY <2>1, <2>2, <2>3, <3>1, <3>2
      DEF BoundsInv, HeaderInv, TableInv, BlocksInv, LowestInv, NamesInv
  <2>5. CASE sections # 1
    <3>1. pc' = "section" /\ blocks' = blocks
      BY <2>1, <2>5 DEF Goto
    <3> QED
      BY <2>1, <2>2, <2>3, <3>1
      DEF BoundsInv, HeaderInv, TableInv, BlocksInv, LowestInv, NamesInv
  <2> QED
    BY <2>4, <2>5
<1> QED
  BY <1>1, <1>2

LEMMA NamesStep == BoundsInv /\ ParseNames => BoundsInv'
<1> SUFFICES ASSUME BoundsInv, ParseNames PROVE BoundsInv'
  OBVIOUS
<1>1. CASE Reject
  BY <1>1, RejectInv
<1>2. CASE ~Reject
  <2>1. /\ NamesFit /\ Goto("accepted") /\ UNCHANGED << listOff, pos, namesStart, lowest >>
    BY <1>2 DEF ParseNames
  <2>2. /\ HeaderFits /\ listOff \in Nat /\ pos = TablePosition(listOff)
        /\ lowest \in Int /\ lowest >= pos
    BY DEF ParseNames, BoundsInv, HeaderInv, TableInv, LowestInv
  <2>3. NamesFit'
    BY <2>1, GotoInv DEF NamesFit
  <2> QED
    BY <2>1, <2>2, <2>3, GotoInv
    DEF BoundsInv, HeaderInv, TableInv, BlocksInv, LowestInv, NamesInv
<1> QED
  BY <1>1, <1>2

LEMMA StepInv == BoundsInv /\ [Next]_vars => BoundsInv'
  BY HeaderStep, ListStep, CountStep, BlockStep, SectionStep, NamesStep, DoneInv
  DEF Next, Done

\* In a file below 2^32 bytes that the parser accepts and whose block table
\* offset the validator does not object to, every descriptor and the start of
\* the name table lie in the info section (parser.go:318, :193; validate.go:93).
THEOREM TablesInInfo == Spec => []ValidatedInInfo
<1>1. BoundsInv => ValidatedInInfo
  <2> SUFFICES ASSUME BoundsInv, pc = "accepted", OffsetValid, size < WordMod
               PROVE  lowest >= hdr.infoOff /\ namesStart <= InfoEnd
    BY DEF ValidatedInInfo
  <2>1. namesStart <= InfoEnd
    BY DEF BoundsInv, NamesInv, NamesFit
  <2>2. /\ hdr.infoOff \in Nat /\ hdr.infoSize \in Nat /\ size \in Nat
        /\ listOff \in Nat /\ lowest \in Int /\ WordMod \in Nat
    BY SizesType DEF BoundsInv, InputInv, TableInv, LowestInv, Word
  <2>3. hdr.infoOff + listOff < WordMod
    BY <2>2 DEF BoundsInv, HeaderInv, HeaderFits, InfoEnd, OffsetValid
  <2>4. pos = hdr.infoOff + listOff
    <3>1. TablePosition(listOff) = hdr.infoOff + listOff
      BY <2>2, <2>3, Remainder DEF TablePosition
    <3> QED
      BY <3>1 DEF BoundsInv, TableInv
  <2> QED
    BY <2>1, <2>2, <2>4 DEF BoundsInv, LowestInv
<1> QED
  BY <1>1, InitInv, StepInv, PTL DEF Spec

-----------------------------------------------------------------------------
(***************************************************************************)
(* Written files.  The parser finds each table where the serializer put    *)
(* it: its position, and the end of the descriptors seen so far, are those *)
(* of the layout, and all of it lies in the file.                          *)
(***************************************************************************)

TableOf(l) == HeaderSize + Region(l.blocks) + HeaderSize + ListSize

\* Where the descriptors of the first i blocks end.
EndOf(l, i) ==
  TableOf(l) + CountSize + BlockSize * Len(l.blocks) + Descriptors(SubSeq(l.blocks, 1, i))

TableFound == pc \in {"count", "block", "section", "accepted"} => pos = TableOf(layout)

BlockFound ==
  pc \in {"block", "section"} =>
    /\ blocks \in 0 .. Len(layout.blocks)
    /\ blockPos = TableOf(layout) + CountSize + BlockSize * (Len(layout.blocks) - blocks)

EndFound ==
  /\ pc = "block" => namesStart = EndOf(layout, Len(layout.blocks) - blocks)
  /\ pc = "section" => blocks > 0 /\ namesStart = EndOf(layout, Index)
  /\ pc = "accepted" => namesStart = TableAt(layout)

SectionFound ==
  pc = "section" =>
    /\ sections \in 1 .. Len(layout.blocks[Index])
    /\ sectionPos = EndOf(layout, Index - 1)
                      + SectionSize * (Len(layout.blocks[Index]) - sections)

Found ==
  /\ pc \in {"header", "list", "count", "block", "section", "accepted"}
  /\ TableFound /\ BlockFound /\ EndFound /\ SectionFound

WrittenInv == Known /\ WithinCaps(layout) => Found

LEMMA Times ==
  ASSUME NEW c \in Nat, NEW a \in Nat, NEW b \in 0 .. a
  PROVE  c * b \in 0 .. c * a /\ c * (b + 1) = c * b + c
OBVIOUS

\* The tables of a layout, one after the other.
LEMMA Places ==
  ASSUME NEW l \in Layouts
  PROVE  /\ TableOf(l) \in Nat /\ BlockSize * Len(l.blocks) \in Nat
         /\ TableOf(l) = HeaderSize + Region(l.blocks) + HeaderSize + ListSize
         /\ TableOf(l) + CountSize <= TableAt(l)
         /\ EndOf(l, 0) = TableOf(l) + CountSize + BlockSize * Len(l.blocks)
         /\ EndOf(l, Len(l.blocks)) = TableAt(l)
         /\ \A i \in 0 .. Len(l.blocks) :
              /\ EndOf(l, i) \in Nat /\ EndOf(l, i) <= TableAt(l)
              /\ TableOf(l) + CountSize + BlockSize * Len(l.blocks) <= EndOf(l, i)
         /\ \A i \in 1 .. Len(l.blocks) :
              EndOf(l, i) = EndOf(l, i - 1) + SectionSize * Len(l.blocks[i])
<1> DEFINE bs == l.blocks
           n == Len(bs)
           h == BlockSize * n
           r == Region(bs)
           d(i) == Descriptors(SubSeq(bs, 1, i))
           D == Descriptors(bs)
           t == TableOf(l)
           T == TableAt(l)
           e(i) == EndOf(l, i)
<1>1. /\ bs \in Seq(Seq(Nat)) /\ n \in Nat /\ h \in Nat /\ r \in Nat
  BY LayoutType, SizesType
<1>2. /\ D \in Nat /\ d(0) = 0 /\ d(n) = D
      /\ \A i \in 0 .. n : d(i) \in 0 .. D
      /\ \A i \in 1 .. n : d(i) = d(i - 1) + SectionSize * Len(bs[i])
  BY <1>1, DescriptorsGrow
<1>3. t = HeaderSize + r + HeaderSize + ListSize BY DEF TableOf
<1>4. T = t + CountSize + h + D
  <2>1. T = HeaderSize + r + HeaderSize + ListSize + CountSize + h + D BY DEF TableAt
  <2> HIDE DEF h, r, D, t, T
  <2> QED BY <1>1, <1>2, <1>3, <2>1, SizesType
<1>5. \A i : e(i) = t + CountSize + h + d(i) BY DEF EndOf
<1>6. \A i \in 1 .. n : SectionSize * Len(bs[i]) \in Nat
  <2>1. \A i \in 1 .. n : Len(bs[i]) \in Nat BY LayoutType
  <2> QED BY <2>1, SizesType
<1> DEFINE s(i) == SectionSize * Len(bs[i])
<1>7. /\ \A i \in 1 .. n : s(i) \in Nat /\ d(i) = d(i - 1) + s(i)
  BY <1>2, <1>6
<1> HIDE DEF n, h, r, d, D, t, T, e, s
<1>8. t \in Nat /\ t + CountSize <= T BY <1>1, <1>2, <1>3, <1>4, SizesType
<1>9. e(0) = t + CountSize + h /\ e(n) = T BY <1>1, <1>2, <1>4, <1>5, <1>8, SizesType
<1>10. ASSUME NEW i \in 0 .. n
       PROVE  e(i) \in Nat /\ e(i) <= T /\ t + CountSize + h <= e(i)
  <2>1. d(i) \in 0 .. D /\ e(i) = t + CountSize + h + d(i) BY <1>2, <1>5
  <2> QED BY <1>1, <1>2, <1>4, <1>8, <2>1, SizesType
<1>11. ASSUME NEW i \in 1 .. n PROVE e(i) = e(i - 1) + s(i)
  <2>1. i \in 0 .. n /\ i - 1 \in 0 .. n BY <1>1
  <2>2. /\ e(i) = t + CountSize + h + d(i) /\ e(i - 1) = t + CountSize + h + d(i - 1)
        /\ d(i) = d(i - 1) + s(i) /\ d(i - 1) \in Nat /\ s(i) \in Nat
    BY <1>2, <1>5, <1>7, <2>1
  <2> QED BY <1>1, <1>8, <2>2, SizesType
<1> QED BY <1>1, <1>3, <1>8, <1>9, <1>10, <1>11 DEF n, h, r, t, T, e, s

\* The words of a layout that fits them are the places themselves.
LEMMA WordsArePlaces ==
  ASSUME NEW l \in Layouts, FileSize(l) <= WordMod
  PROVE  /\ WrittenHeader(l).infoOff = HeaderSize + Region(l.blocks)
         /\ WrittenHeader(l).infoOff + WrittenHeader(l).infoSize = FileSize(l)
         /\ WrittenHeader(l).dataOff = HeaderSize
         /\ WrittenHeader(l).dataSize = Region(l.blocks)
         /\ \A i \in 1 .. Len(l.blocks) :
              TableOf(l) + BlockOffset(l.blocks, i) = EndOf(l, i - 1)
<1> DEFINE r == Region(l.blocks)
           h == BlockSize * Len(l.blocks)
           F == FileSize(l)
           t == TableOf(l)
           T == TableAt(l)
<1>1. /\ r \in Nat /\ h \in Nat /\ F \in Nat /\ t \in Nat /\ T \in Nat
      /\ T <= F /\ F <= WordMod
      /\ t = HeaderSize + r + HeaderSize + ListSize /\ t + CountSize <= T
  BY LayoutType, Places
<1>2. /\ WrittenHeader(l).infoOff = (HeaderSize + r) % WordMod
      /\ WrittenHeader(l).infoSize = (F - HeaderSize - r) % WordMod
      /\ WrittenHeader(l).dataOff = HeaderSize
      /\ WrittenHeader(l).dataSize = r % WordMod
  BY DEF WrittenHeader
<1>3. ASSUME NEW i \in 1 .. Len(l.blocks)
      PROVE  t + BlockOffset(l.blocks, i) = EndOf(l, i - 1)
  <2> DEFINE d == Descriptors(SubSeq(l.blocks, 1, i - 1))
             a == CountSize + h + d
             e == EndOf(l, i - 1)
  <2>1. i - 1 \in 0 .. Len(l.blocks) BY LayoutType
  <2>2. e \in Nat /\ e <= T /\ e = t + CountSize + h + d BY <2>1, Places DEF EndOf
  <2>3. d \in Nat BY <2>1, LayoutType, DescriptorsGrow
  <2>4. BlockOffset(l.blocks, i) = a % WordMod BY DEF BlockOffset
  <2> HIDE DEF d, h, F, t, T, r, e
  <2>5. a \in Nat /\ a < WordMod /\ t + a = e BY <1>1, <2>2, <2>3, SizesType
  <2> HIDE DEF a
  <2>6. a % WordMod = a BY <2>5, Remainder, SizesType
  <2> QED BY <2>4, <2>5, <2>6 DEF e, t
<1> DEFINE x == HeaderSize + r
           y == F - HeaderSize - r
<1> HIDE DEF r, h, F, t, T
<1>4. /\ x \in Nat /\ x < WordMod /\ y \in Nat /\ y < WordMod /\ r < WordMod
      /\ x + y = F
  BY <1>1, SizesType
<1> HIDE DEF x, y
<1>5. x % WordMod = x /\ y % WordMod = y /\ r % WordMod = r
  BY <1>1, <1>4, Remainder, SizesType
<1>6. /\ WrittenHeader(l).infoOff = x /\ WrittenHeader(l).infoSize = y
      /\ WrittenHeader(l).dataOff = HeaderSize /\ WrittenHeader(l).dataSize = r
  BY <1>2, <1>5 DEF x, y
<1> QED BY <1>3, <1>4, <1>6 DEF x, F, r, t

\* A payload lies in the data region.
LEMMA PayloadPlace ==
  ASSUME NEW l \in Layouts, FileSize(l) <= WordMod,
         NEW i \in 1 .. Len(l.blocks), NEW k \in 1 .. Len(l.blocks[i])
  PROVE  /\ PayloadOffset(l.blocks, i, k) \in Nat /\ l.blocks[i][k] \in Nat
         /\ PayloadOffset(l.blocks, i, k) + LenSize + l.blocks[i][k] <= Region(l.blocks)
<1> DEFINE bs == l.blocks
           r == Region(bs)
           p == Region(SubSeq(bs, 1, i - 1))
           q == StoredBlock(SubSeq(bs[i], 1, k - 1))
           b == StoredBlock(bs[i])
           n == bs[i][k]
           s == Stored(n)
           a == p + q
<1>1. bs \in Seq(Seq(Nat)) /\ bs[i] \in Seq(Nat) /\ n \in Nat BY LayoutType
<1>2. r \in Nat /\ p \in Nat /\ p + b <= r BY <1>1, RegionHolds
<1>3. q \in Nat /\ b \in Nat /\ q + s <= b BY <1>1, StoredBlockIs
<1>4. s \in Nat /\ s >= LenSize + n BY <1>1, StoredSize
<1>5. r < WordMod
  <2>1. TableOf(l) \in Nat /\ TableOf(l) = HeaderSize + r + HeaderSize + ListSize
        /\ TableOf(l) + CountSize <= TableAt(l) /\ TableAt(l) <= FileSize(l)
        /\ TableAt(l) \in Nat /\ FileSize(l) \in Nat
    BY LayoutType, Places
  <2> HIDE DEF r
  <2> QED BY <1>2, <2>1, SizesType
<1>6. PayloadOffset(bs, i, k) = a % WordMod BY DEF PayloadOffset
<1> HIDE DEF r, p, q, b, n, s
<1>7. a \in Nat /\ a < WordMod /\ a + LenSize + n <= r
  BY <1>1, <1>2, <1>3, <1>4, <1>5, SizesType
<1> HIDE DEF a
<1>8. a % WordMod = a BY <1>7, Remainder, SizesType
<1> QED BY <1>1, <1>6, <1>7, <1>8 DEF n, r

LEMMA Capped ==
  ASSUME NEW l \in Layouts, WithinCaps(l), NEW i \in 1 .. Len(l.blocks)
  PROVE  /\ Len(l.blocks[i]) \in Nat \ {0} /\ ~(Len(l.blocks[i]) > MaxSections)
         /\ \A k \in 1 .. Len(l.blocks[i]) :
              l.blocks[i][k] \in Nat /\ l.blocks[i][k] <= MaxPayload
<1>1. PICK b \in Seq(Nat) : b = l.blocks[i] BY LayoutType
<1>2. DOMAIN b = 1 .. Len(b) /\ Len(b) \in Nat BY <1>1
<1>3. i \in DOMAIN l.blocks BY LayoutType
<1>4. Len(b) <= MaxSections /\ \A k \in DOMAIN b : b[k] <= MaxPayload
  BY <1>1, <1>3 DEF WithinCaps
<1>5. Len(b) # 0 BY <1>1, LayoutType
<1>6. ~(Len(b) > MaxSections) BY <1>2, <1>4, SizesType
<1>7. \A k \in 1 .. Len(b) : b[k] \in Nat /\ b[k] <= MaxPayload BY <1>2, <1>4
<1> QED BY <1>1, <1>2, <1>5, <1>6, <1>7

\* What is known of a written file that is read.
LEMMA WrittenFile ==
  ASSUME BoundsInv, Known
  PROVE  /\ layout \in Layouts /\ FileSize(layout) <= WordMod
         /\ size = FileSize(layout) /\ size \in Nat /\ size <= WordMod
         /\ hdr.infoOff = HeaderSize + Region(layout.blocks) /\ InfoEnd = size
         /\ hdr.dataOff = HeaderSize /\ hdr.dataSize = Region(layout.blocks)
         /\ Region(layout.blocks) \in Nat
         /\ TableOf(layout) \in Nat /\ TableAt(layout) \in Nat
         /\ TableOf(layout) = hdr.infoOff + HeaderSize + ListSize
         /\ TableOf(layout) + CountSize <= TableAt(layout)
         /\ TableAt(layout) <= size
<1>1. /\ layout \in Layouts /\ FileSize(layout) <= WordMod
      /\ size = FileSize(layout) /\ size \in Nat /\ hdr = WrittenHeader(layout)
  BY DEF BoundsInv, InputInv, Known
<1>2. /\ hdr.infoOff = HeaderSize + Region(layout.blocks)
      /\ hdr.infoOff + hdr.infoSize = size
      /\ hdr.dataOff = HeaderSize /\ hdr.dataSize = Region(layout.blocks)
  BY <1>1, WordsArePlaces
<1>3. /\ Region(layout.blocks) \in Nat
      /\ TableOf(layout) \in Nat /\ TableAt(layout) \in Nat
      /\ TableOf(layout) = HeaderSize + Region(layout.blocks) + HeaderSize + ListSize
      /\ TableOf(layout) + CountSize <= TableAt(layout)
      /\ TableAt(layout) <= size
  BY <1>1, LayoutType, Places
<1>4. InfoEnd = size BY <1>2 DEF InfoEnd
<1> DEFINE r == Region(layout.blocks)
           t == TableOf(layout)
           T == TableAt(layout)
           a == hdr.infoOff
<1>5. t = a + HeaderSize + ListSize
  <2>1. t = HeaderSize + r + HeaderSize + ListSize /\ a = HeaderSize + r BY <1>2, <1>3
  <2> HIDE DEF t, r, a
  <2> QED BY <2>1
<1> QED BY <1>1, <1>2, <1>3, <1>4, <1>5

LEMMA HeaderFound ==
  ASSUME BoundsInv, Known, WithinCaps(layout), Found, ParseHeader
  PROVE  Found'
<1> DEFINE r == Region(layout.blocks)
           t == TableOf(layout)
           T == TableAt(layout)
<1>1. /\ r \in Nat /\ t \in Nat /\ T \in Nat /\ size \in Nat
      /\ hdr.infoOff = HeaderSize + r /\ InfoEnd = size
      /\ hdr.dataOff = HeaderSize /\ hdr.dataSize = r
      /\ t = hdr.infoOff + HeaderSize + ListSize /\ t + CountSize <= T /\ T <= size
  BY WrittenFile
<1> HIDE DEF r, t, T
<1>2. HeaderFits BY <1>1, SizesType DEF HeaderFits, Readable
<1>3. pc' = "list" BY <1>2 DEF ParseHeader, Goto
<1> QED BY <1>3 DEF Found, TableFound, BlockFound, EndFound, SectionFound

LEMMA ListFound ==
  ASSUME BoundsInv, Known, WithinCaps(layout), Found, ParseBlockInfoList
  PROVE  Found'
<1> DEFINE r == Region(layout.blocks)
           t == TableOf(layout)
           T == TableAt(layout)
           a == hdr.infoOff
           w == HeaderSize + ListSize
<1>1. /\ r \in Nat /\ t \in Nat /\ T \in Nat /\ size \in Nat /\ size <= WordMod
      /\ a = HeaderSize + r /\ InfoEnd = size
      /\ t = a + HeaderSize + ListSize /\ t + CountSize <= T /\ T <= size
  BY WrittenFile
<1>2. TablePosition(w) = (a + w) % WordMod BY DEF TablePosition
<1>3. ListFits <=> /\ a + HeaderSize <= size /\ a < size
                   /\ a + HeaderSize + ListSize <= size /\ a + HeaderSize < size
  BY DEF ListFits, Readable
<1> HIDE DEF r, t, T, a
<1>4. ListFits BY <1>1, <1>3, SizesType
<1>5. TablePosition(w) = t
  <2> DEFINE b == a + w
  <2>1. b = t /\ b \in Nat /\ b < WordMod BY <1>1, SizesType
  <2> HIDE DEF b, w
  <2>2. b % WordMod = b BY <2>1, Remainder, SizesType
  <2> QED BY <1>2, <2>1, <2>2 DEF b
<1>6. ~(t > InfoEnd) BY <1>1, SizesType
<1>7. ListOffsets = {w} BY DEF ListOffsets
<1> HIDE DEF w
<1>8. pc' = "count" /\ pos' = t /\ layout' = layout
  <2>1. PICK v \in ListOffsets :
          \/ TablePosition(v) > InfoEnd /\ Reject
          \/ Goto("count") /\ pos' = TablePosition(v)
    BY <1>4 DEF ParseBlockInfoList
  <2>2. v = w BY <1>7
  <2> QED BY <1>5, <1>6, <2>1, <2>2 DEF Goto
<1> QED BY <1>8 DEF t, Found, TableFound, BlockFound, EndFound, SectionFound

LEMMA CountFound ==
  ASSUME BoundsInv, Known, WithinCaps(layout), Found, ParseCount
  PROVE  Found'
<1> DEFINE N == Len(layout.blocks)
           t == TableOf(layout)
           T == TableAt(layout)
<1>1. /\ t \in Nat /\ T \in Nat /\ size \in Nat /\ t + CountSize <= T /\ T <= size
  BY WrittenFile
<1>2. N \in Nat /\ ~(N > MaxBlocks) BY WrittenFile, LayoutType, SizesType DEF WithinCaps
<1>3. pos = t BY DEF ParseCount, Found, TableFound
<1>4. EndOf(layout, 0) = t + CountSize + BlockSize * N BY WrittenFile, Places
<1>5. Counts = {N} BY DEF Counts
<1>6. N - N = 0 /\ BlockSize * 0 = 0 /\ t + CountSize + 0 = t + CountSize
  <2> HIDE DEF N, t
  <2> QED BY <1>1, <1>2, SizesType
<1> HIDE DEF t, T, N
<1>7. Readable(pos, CountSize) BY <1>1, <1>3, SizesType DEF Readable
<1>8. /\ pc' = "block" /\ layout' = layout /\ pos' = t /\ blocks' = N
      /\ blockPos' = t + CountSize /\ namesStart' = t + CountSize + BlockSize * N
  <2>1. PICK n \in Counts :
          \/ n > MaxBlocks /\ Reject
          \/ /\ Goto("block") /\ pos' = pos /\ blocks' = n /\ blockPos' = pos + CountSize
             /\ namesStart' = pos + CountSize + BlockSize * n
    BY <1>7 DEF ParseCount
  <2>2. n = N BY <1>5
  <2> QED BY <1>2, <1>3, <2>1, <2>2 DEF Goto
<1>9. Len(layout'.blocks) = N /\ TableOf(layout') = t BY <1>8 DEF N, t
<1>10. EndOf(layout', 0) = namesStart' BY <1>4, <1>8
<1> QED
  BY <1>2, <1>6, <1>8, <1>9, <1>10 DEF Found, TableFound, BlockFound, EndFound, SectionFound

LEMMA BlockHeaderFound ==
  ASSUME BoundsInv, Known, WithinCaps(layout), Found, ParseBlock
  PROVE  Found'
<1> DEFINE N == Len(layout.blocks)
           t == TableOf(layout)
           T == TableAt(layout)
           h == BlockSize * N
           g == BlockSize * (N - blocks)
           i == Index
           L == Len(layout.blocks[i])
           o == BlockOffset(layout.blocks, i)
           e == EndOf(layout, i - 1)
           f == EndOf(layout, i)
           s == SectionSize * L
<1>1. /\ layout \in Layouts /\ t \in Nat /\ T \in Nat /\ size \in Nat
      /\ t + CountSize <= T /\ T <= size
  BY WrittenFile
<1>2. /\ pc = "block" /\ blocks \in 0 .. N /\ blocks > 0 /\ pos = t
      /\ blockPos = t + CountSize + g /\ namesStart = EndOf(layout, N - blocks)
  BY DEF ParseBlock, Found, TableFound, BlockFound, EndFound
<1>3. N \in Nat BY <1>1, LayoutType
<1>4. i \in 1 .. N /\ i - 1 = N - blocks /\ i - 1 \in 0 .. N BY <1>2, <1>3 DEF Index
<1>5. /\ L \in Nat \ {0} /\ ~(L > MaxSections)
  BY <1>1, <1>4, Capped
<1>6. /\ h \in Nat /\ e \in Nat /\ f \in Nat /\ f <= T /\ f = e + s
      /\ t + CountSize + h <= e
  <2>1. i \in 0 .. N /\ f = e + s BY <1>1, <1>4, Places
  <2> QED BY <1>1, <1>4, <2>1, Places
<1>7. t + o = e BY <1>1, <1>4, WrittenFile, WordsArePlaces
<1>8. g \in Nat /\ g + BlockSize <= h
  <2> DEFINE k == N - blocks
  <2>1. k \in 0 .. N /\ k + 1 \in 0 .. N BY <1>2, <1>3
  <2> HIDE DEF k
  <2>2. BlockSize * k \in Nat /\ BlockSize * (k + 1) \in 0 .. BlockSize * N
        /\ BlockSize * (k + 1) = BlockSize * k + BlockSize
    BY <1>3, <2>1, Times, SizesType
  <2> QED BY <2>2, <1>6, SizesType DEF k
<1>9. s \in Nat BY <1>5, SizesType
<1>10. BlockWords = {<< o, L >>} BY DEF BlockWords
<1>11. SectionSize * (L - L) = 0 BY <1>5, SizesType
<1>12. namesStart = e BY <1>2, <1>4
<1>13. blocks \in Nat BY <1>2, <1>3
<1> HIDE DEF N, t, T, h, g, i, L, o, e, f, s
<1>14. Readable(blockPos, BlockSize)
  BY <1>1, <1>2, <1>6, <1>8, <1>9, SizesType DEF Readable
<1>15. /\ pc' = "section" /\ layout' = layout /\ pos' = t /\ blocks' = blocks
       /\ blockPos' = blockPos /\ sections' = L /\ sectionPos' = e
       /\ namesStart' = HigherOf(e, e + s)
  <2>1. PICK w \in BlockWords :
          \/ w[2] > MaxSections /\ Reject
          \/ /\ Goto("section") /\ sections' = w[2] /\ sectionPos' = pos + w[1]
             /\ namesStart' = HigherOf(namesStart, pos + w[1] + SectionSize * w[2])
             /\ UNCHANGED << pos, blocks, blockPos >>
    BY <1>14 DEF ParseBlock
  <2>2. w[1] = o /\ w[2] = L BY <1>10
  <2>3. /\ Goto("section") /\ sections' = L /\ sectionPos' = pos + o
        /\ namesStart' = HigherOf(namesStart, pos + o + SectionSize * L)
        /\ UNCHANGED << pos, blocks, blockPos >>
    BY <1>5, <2>1, <2>2
  <2>4. pos + o = e BY <1>2, <1>7
  <2> QED BY <1>2, <1>12, <2>3, <2>4 DEF s, Goto
<1>16. HigherOf(e, e + s) = f BY <1>6, <1>9 DEF HigherOf
<1>17. Index' = i BY <1>15 DEF Index, i
<1>18. /\ Len(layout'.blocks) = N /\ TableOf(layout') = t /\ Len(layout'.blocks[Index']) = L
       /\ EndOf(layout', Index') = f /\ EndOf(layout', Index' - 1) = e
       /\ BlockSize * (Len(layout'.blocks) - blocks') = g
  BY <1>15, <1>17 DEF N, t, L, e, f, g
<1>19. e + SectionSize * (L - L) = e /\ L \in 1 .. L BY <1>5, <1>6, <1>11
<1>20. TableFound' /\ BlockFound' BY <1>2, <1>15, <1>18 DEF TableFound, BlockFound
<1>21. EndFound' BY <1>2, <1>15, <1>16, <1>18 DEF EndFound
<1>22. SectionFound' BY <1>15, <1>18, <1>19 DEF SectionFound
<1> QED BY <1>15, <1>20, <1>21, <1>22 DEF Found

LEMMA DescriptorFound ==
  ASSUME BoundsInv, Known, WithinCaps(layout), Found, ParseSection
  PROVE  Found'
<1> DEFINE N == Len(layout.blocks)
           t == TableOf(layout)
           T == TableAt(layout)
           r == Region(layout.blocks)
           g == BlockSize * (N - blocks)
           i == Index
           L == Len(layout.blocks[i])
           e == EndOf(layout, i - 1)
           f == EndOf(layout, i)
           d == SectionSize * (L - sections)
           k == L - sections + 1
           o == PayloadOffset(layout.blocks, i, k)
           n == layout.blocks[i][k]
<1>1. /\ layout \in Layouts /\ FileSize(layout) <= WordMod
      /\ t \in Nat /\ T \in Nat /\ size \in Nat /\ r \in Nat
      /\ t + CountSize <= T /\ T <= size /\ hdr.dataOff = HeaderSize
      /\ t = HeaderSize + r + HeaderSize + ListSize
  <2>1. t = HeaderSize + r + HeaderSize + ListSize BY WrittenFile, Places
  <2> QED BY <2>1, WrittenFile
<1>2. /\ pc = "section" /\ blocks \in 0 .. N /\ blocks > 0 /\ pos = t
      /\ blockPos = t + CountSize + g /\ namesStart = f
      /\ sections \in 1 .. L /\ sectionPos = e + d
  BY DEF ParseSection, Found, TableFound, BlockFound, EndFound, SectionFound
<1>3. N \in Nat BY <1>1, LayoutType
<1>4. i \in 1 .. N /\ i = N - (blocks - 1) /\ i - 1 \in 0 .. N /\ i \in 0 .. N
      /\ blocks - 1 \in 0 .. N
  BY <1>2, <1>3 DEF Index
<1>5. L \in Nat BY <1>1, <1>4, LayoutType
<1>6. k \in 1 .. L BY <1>2, <1>5
<1>7. n \in Nat /\ n <= MaxPayload BY <1>1, <1>4, <1>6, Capped
<1>8. o \in Nat /\ o + LenSize + n <= r BY <1>1, <1>4, <1>6, PayloadPlace
<1>9. /\ e \in Nat /\ f \in Nat /\ f <= T /\ f = e + SectionSize * L
  <2>1. f = e + SectionSize * L BY <1>1, <1>4, Places
  <2> QED BY <1>1, <1>4, <2>1, Places
<1>10. /\ d \in Nat /\ d + SectionSize <= SectionSize * L
       /\ SectionSize * (L - (sections - 1)) = d + SectionSize
  <2> DEFINE j == L - sections
  <2>1. j \in 0 .. L /\ j + 1 \in 0 .. L /\ L - (sections - 1) = j + 1 BY <1>2, <1>5
  <2> HIDE DEF j
  <2>2. SectionSize * j \in Nat /\ SectionSize * (j + 1) \in 0 .. SectionSize * L
        /\ SectionSize * (j + 1) = SectionSize * j + SectionSize
    BY <1>5, <2>1, Times, SizesType
  <2>3. SectionSize * L \in Nat BY <1>5, SizesType
  <2> HIDE DEF L
  <2> QED BY <2>1, <2>2, <2>3, SizesType DEF j
<1>11. BlockSize * (N - (blocks - 1)) = g + BlockSize /\ g \in Nat
  <2> DEFINE j == N - blocks
  <2>1. j \in 0 .. N /\ N - (blocks - 1) = j + 1 BY <1>2, <1>3
  <2> HIDE DEF j
  <2>2. BlockSize * (j + 1) = BlockSize * j + BlockSize /\ BlockSize * j \in Nat
    BY <1>3, <2>1, Times, SizesType
  <2> QED BY <2>1, <2>2 DEF j
<1>12. Payloads = {<< o, n >>} BY DEF Payloads
<1>13. SectionSize * L \in Nat BY <1>5, SizesType
<1> DEFINE S == SectionSize * L
<1>14. f = e + S /\ d + SectionSize <= S /\ S \in Nat BY <1>9, <1>10, <1>13
<1>15. sections \in Nat \ {0} /\ (sections # 1 => sections - 1 \in 1 .. L)
       /\ (sections # 1 => ~(sections = 1))
  BY <1>2, <1>5
<1> HIDE DEF S
<1> HIDE DEF N, t, T, r, g, i, L, e, f, d, k, o, n
<1>16. Readable(sectionPos, SectionSize)
  BY <1>1, <1>2, <1>9, <1>10, <1>14, SizesType DEF Readable
<1>17. PayloadFits(HeaderSize + o, n)
  BY <1>1, <1>7, <1>8, SizesType DEF PayloadFits, Readable
<1>18. /\ Goto(IF sections = 1 THEN "block" ELSE "section")
       /\ sections' = sections - 1 /\ sectionPos' = sectionPos + SectionSize
       /\ blocks' = IF sections = 1 THEN blocks - 1 ELSE blocks
       /\ blockPos' = IF sections = 1 THEN blockPos + BlockSize ELSE blockPos
       /\ UNCHANGED << pos, namesStart >>
  <2>1. PICK w \in Payloads :
          \/ ~PayloadFits(hdr.dataOff + w[1], w[2]) /\ Reject
          \/ /\ Goto(IF sections = 1 THEN "block" ELSE "section")
             /\ sections' = sections - 1 /\ sectionPos' = sectionPos + SectionSize
             /\ blocks' = IF sections = 1 THEN blocks - 1 ELSE blocks
             /\ blockPos' = IF sections = 1 THEN blockPos + BlockSize ELSE blockPos
             /\ UNCHANGED << pos, namesStart >>
    BY <1>16 DEF ParseSection
  <2>2. w[1] = o /\ w[2] = n BY <1>12
  <2> QED BY <1>1, <1>17, <2>1, <2>2
<1>19. layout' = layout /\ pos' = t /\ namesStart' = f BY <1>2, <1>18 DEF Goto
<1>20. Len(layout'.blocks) = N /\ TableOf(layout') = t BY <1>19 DEF N, t
<1>21. TableFound' BY <1>19, <1>20 DEF TableFound
<1>22. CASE sections = 1
  <2>1. pc' = "block" /\ blocks' = blocks - 1 /\ blockPos' = blockPos + BlockSize
    BY <1>18, <1>22 DEF Goto
  <2>2. blockPos' = t + CountSize + BlockSize * (N - blocks')
    <3>1. BlockSize * (N - blocks') = g + BlockSize BY <1>11, <2>1
    <3> QED BY <1>1, <1>2, <1>11, <2>1, <3>1, SizesType
  <2>3. BlockFound' BY <1>4, <1>20, <2>1, <2>2 DEF BlockFound
  <2>4. EndOf(layout', Len(layout'.blocks) - blocks') = f
    BY <1>4, <1>19, <1>20, <2>1 DEF f
  <2>5. EndFound' BY <1>19, <2>1, <2>4 DEF EndFound
  <2> QED BY <1>21, <2>1, <2>3, <2>5 DEF Found, SectionFound
<1>23. CASE sections # 1
  <2>1. pc' = "section" /\ blocks' = blocks /\ blockPos' = blockPos
    BY <1>18, <1>23 DEF Goto
  <2>2. Index' = i BY <1>19, <2>1 DEF Index, i
  <2>3. /\ Len(layout'.blocks[Index']) = L /\ EndOf(layout', Index') = f
        /\ EndOf(layout', Index' - 1) = e
        /\ BlockSize * (Len(layout'.blocks) - blocks') = g
    BY <1>19, <2>1, <2>2 DEF L, e, f, g, N
  <2>4. BlockFound' BY <1>2, <1>20, <2>1, <2>3 DEF BlockFound
  <2>5. EndFound' BY <1>2, <1>19, <2>1, <2>3 DEF EndFound
  <2>6. sections' \in 1 .. L BY <1>15, <1>18, <1>23
  <2>7. sectionPos' = e + SectionSize * (L - sections')
    <3>1. SectionSize * (L - sections') = d + SectionSize BY <1>10, <1>18
    <3> QED BY <1>2, <1>9, <1>10, <1>18, <3>1, SizesType
  <2>8. SectionFound' BY <2>3, <2>6, <2>7 DEF SectionFound
  <2> QED BY <1>21, <2>1, <2>4, <2>5, <2>8 DEF Found
<1> QED BY <1>22, <1>23

LEMMA NamesFound ==
  ASSUME BoundsInv, Known, WithinCaps(layout), Found, ParseNames
  PROVE  Found'
<1> DEFINE N == Len(layout.blocks)
           t == TableOf(layout)
           T == TableAt(layout)
<1>1. /\ layout \in Layouts /\ T \in Nat /\ size \in Nat /\ T <= size /\ InfoEnd = size
  BY WrittenFile
<1>2. /\ blocks = 0 /\ pos = t /\ namesStart = EndOf(layout, N - blocks)
  BY DEF ParseNames, Found, TableFound, EndFound
<1>3. N - blocks = N BY <1>1, <1>2, LayoutType
<1>4. namesStart = T BY <1>1, <1>2, <1>3, Places
<1> HIDE DEF T, t
<1>5. NamesFit BY <1>1, <1>4 DEF NamesFit
<1>6. pc' = "accepted" /\ layout' = layout /\ pos' = t /\ namesStart' = T
  BY <1>2, <1>4, <1>5 DEF ParseNames, Goto
<1>7. TableOf(layout') = t /\ TableAt(layout') = T BY <1>6 DEF t, T
<1> QED BY <1>6, <1>7 DEF Found, TableFound, BlockFound, EndFound, SectionFound

LEMMA InputStays ==
  ASSUME [Next]_vars
  PROVE  layout' = layout /\ Known' = Known
BY DEF Next, vars, ParseHeader, ParseBlockInfoList, ParseCount, ParseBlock, ParseSection,
       ParseNames, Done, Reject, Goto, Known

LEMMA DoneFound == Found /\ UNCHANGED vars => Found'
BY DEF Found, vars, TableFound, BlockFound, EndFound, SectionFound, Index

LEMMA WrittenStep == BoundsInv /\ WrittenInv /\ [Next]_vars => WrittenInv'
<1> SUFFICES ASSUME BoundsInv, WrittenInv, [Next]_vars, Known', WithinCaps(layout)'
             PROVE  Found'
  BY DEF WrittenInv
<1>1. layout' = layout /\ Known BY InputStays
<1>2. WithinCaps(layout) BY <1>1
<1>3. Found BY <1>1, <1>2 DEF WrittenInv
<1> QED
  BY <1>1, <1>2, <1>3, HeaderFound, ListFound, CountFound, BlockHeaderFound,
     DescriptorFound, NamesFound, DoneFound
  DEF Next, Done

\* The parser accepts every file the serializer lays out in 32-bit words and
\* within the parser's caps, whatever its blocks, sections, names and raw tail,
\* and finds the name table where it was put (serializer.go:46, parser.go:193).
THEOREM WrittenFilesAreRead == Spec => []WrittenIsRead
<1>1. Init => WrittenInv
  BY DEF Init, WrittenInv, Found, TableFound, BlockFound, EndFound, SectionFound
<1>2. WrittenInv => WrittenIsRead
  BY DEF WrittenInv, WrittenIsRead, Found, EndFound
<1> QED
  BY <1>1, <1>2, InitInv, StepInv, WrittenStep, PTL DEF Spec

=============================================================================
