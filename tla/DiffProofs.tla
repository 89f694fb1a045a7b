----------------------------- MODULE DiffProofs -----------------------------
(***************************************************************************)
(* Proofs about module Diff: what a comparison of two files shows, for     *)
(* every pair of files, every payload and every sequence of edits.         *)
(***************************************************************************)
EXTENDS Diff, TLAPS, SequenceTheorems, WellFoundedInduction

-----------------------------------------------------------------------------
(***************************************************************************)
(* Edits leave a file behind.                                              *)
(***************************************************************************)

DiffInv == a \in AllFiles /\ b \in AllFiles

LEMMA WithoutOne ==
  ASSUME NEW X, NEW s \in Seq(X), NEW i \in DOMAIN s
  PROVE  RemoveAt(s, i) \in Seq(X) /\ Len(RemoveAt(s, i)) = Len(s) - 1
<1> DEFINE before == SubSeq(s, 1, i - 1)
           behind == SubSeq(s, i + 1, Len(s))
<1>1. Len(s) \in Nat /\ i \in 1 .. Len(s) OBVIOUS
<1>2. before \in Seq(X) /\ Len(before) = i - 1 BY <1>1
<1>3. behind \in Seq(X) /\ Len(behind) = Len(s) - i BY <1>1
<1>4. RemoveAt(s, i) = before \o behind BY DEF RemoveAt
<1> HIDE DEF before, behind
<1>5. before \o behind \in Seq(X) /\ Len(before \o behind) = Len(before) + Len(behind)
  BY <1>2, <1>3, ConcatProperties
<1> QED BY <1>1, <1>2, <1>3, <1>4, <1>5

LEMMA Reversed ==
  ASSUME NEW X, NEW s \in Seq(X)
  PROVE  Reverse(s) \in Seq(X) /\ Len(Reverse(s)) = Len(s)
<1>1. Len(s) \in Nat /\ s \in [1 .. Len(s) -> X] OBVIOUS
<1>2. \A i \in 1 .. Len(s) : (Len(s) - i) + 1 \in 1 .. Len(s) BY <1>1
<1>3. Reverse(s) \in [1 .. Len(s) -> X] BY <1>1, <1>2 DEF Reverse
<1> QED BY <1>1, <1>3, SeqDef

\* A block gets other sections.
LEMMA WithSections ==
  ASSUME NEW f \in AllFiles, NEW k \in DOMAIN f.blocks, NEW ss \in Seq(AllSections), ss # << >>
  PROVE  [f EXCEPT !.blocks[k].sections = ss] \in AllFiles
<1>1. f.blocks \in Seq(AllBlocks) /\ k \in 1 .. Len(f.blocks) BY DEF AllFiles
<1> DEFINE block == [f.blocks[k] EXCEPT !.sections = ss]
           blocks == [f.blocks EXCEPT ![k] = block]
<1>2. block \in AllBlocks
  <2>1. f.blocks[k] \in AllBlocks BY <1>1, ElementOfSeq
  <2> QED BY <2>1 DEF AllBlocks
<1>3. blocks \in Seq(AllBlocks) BY <1>1, <1>2, ExceptSeq
<1>4. [f EXCEPT !.blocks[k].sections = ss] = [f EXCEPT !.blocks = blocks] OBVIOUS
<1> HIDE DEF blocks
<1> QED BY <1>3, <1>4 DEF AllFiles

LEMMA SectionsOfFile ==
  ASSUME NEW f \in AllFiles, NEW k \in DOMAIN f.blocks
  PROVE  /\ f.blocks[k].type \in DOMAIN PayloadsOf
         /\ f.blocks[k].sections \in Seq(AllSections)
         /\ f.blocks[k].sections # << >>
<1>1. f.blocks \in Seq(AllBlocks) /\ k \in 1 .. Len(f.blocks) BY DEF AllFiles
<1>2. f.blocks[k] \in AllBlocks BY <1>1, ElementOfSeq
<1> QED BY <1>2 DEF AllBlocks

LEMMA StepKeepsFiles == DiffInv /\ [Next]_vars => DiffInv'
<1> SUFFICES ASSUME a \in AllFiles, b \in AllFiles, [Next]_vars
             PROVE  a' = a /\ b' \in AllFiles
  BY DEF DiffInv
<1>1. b.header \in [Headers -> Nat] /\ b.blocks \in Seq(AllBlocks) BY DEF AllFiles
<1>2. CASE SetHeader
  <2>1. PICK h \in DOMAIN b.header : b' = [b EXCEPT !.header[h] = @ + 1] /\ a' = a
    BY <1>2 DEF SetHeader, Edit
  <2>2. [b.header EXCEPT ![h] = @ + 1] \in [Headers -> Nat] BY <1>1
  <2> QED BY <2>1, <2>2 DEF AllFiles
<1>3. CASE SetPayload
  <2>1. PICK k \in DOMAIN b.blocks : \E i \in DOMAIN b.blocks[k].sections :
          \E p \in PayloadsOf[b.blocks[k].type] :
            b' = [b EXCEPT !.blocks[k].sections[i].payload = p] /\ a' = a
    BY <1>3 DEF SetPayload, Edit
  <2> DEFINE ss == b.blocks[k].sections
  <2>2. /\ b.blocks[k].type \in DOMAIN PayloadsOf
        /\ ss \in Seq(AllSections) /\ ss # << >>
    BY SectionsOfFile
  <2>3. PICK i \in DOMAIN ss, p \in PayloadsOf[b.blocks[k].type] :
          b' = [b EXCEPT !.blocks[k].sections[i].payload = p] /\ a' = a
    BY <2>1
  <2> DEFINE tt == [ss EXCEPT ![i] = [ss[i] EXCEPT !.payload = p]]
  <2>4. [ss[i] EXCEPT !.payload = p] \in AllSections
    <3>1. ss[i] \in AllSections BY <2>2, ElementOfSeq
    <3> HIDE DEF ss
    <3> QED BY <2>2, <3>1, EditsAssumption DEF AllSections
  <2>5. tt \in Seq(AllSections) /\ Len(tt) = Len(ss) /\ i \in 1 .. Len(ss)
    BY <2>2, <2>4, ExceptSeq
  <2>6. b' = [b EXCEPT !.blocks[k].sections = tt] /\ a' = a BY <2>3
  <2> HIDE DEF tt, ss
  <2>7. tt # << >> BY <2>5, EmptySeq
  <2> QED BY <2>5, <2>6, <2>7, WithSections
<1>4. CASE SetName
  <2>1. PICK k \in DOMAIN b.blocks : \E i \in DOMAIN b.blocks[k].sections, n \in Names :
            b' = [b EXCEPT !.blocks[k].sections[i].name = n] /\ a' = a
    BY <1>4 DEF SetName, Edit
  <2> DEFINE ss == b.blocks[k].sections
  <2>2. ss \in Seq(AllSections) /\ ss # << >> BY SectionsOfFile
  <2>3. PICK i \in DOMAIN ss, n \in Names :
          b' = [b EXCEPT !.blocks[k].sections[i].name = n] /\ a' = a
    BY <2>1
  <2> DEFINE tt == [ss EXCEPT ![i] = [ss[i] EXCEPT !.name = n]]
  <2>4. [ss[i] EXCEPT !.name = n] \in AllSections
    <3>1. ss[i] \in AllSections BY <2>2, ElementOfSeq
    <3> HIDE DEF ss
    <3> QED BY <2>2, <3>1, EditsAssumption DEF AllSections
  <2>5. tt \in Seq(AllSections) /\ Len(tt) = Len(ss) /\ i \in 1 .. Len(ss)
    BY <2>2, <2>4, ExceptSeq
  <2>6. b' = [b EXCEPT !.blocks[k].sections = tt] /\ a' = a BY <2>3
  <2> HIDE DEF tt, ss
  <2>7. tt # << >> BY <2>5, EmptySeq
  <2> QED BY <2>5, <2>6, <2>7, WithSections
<1>5. CASE AddSection
  <2>1. PICK k \in DOMAIN b.blocks : \E i \in SectionIds, p \in PayloadsOf[b.blocks[k].type] :
            /\ b' = [b EXCEPT !.blocks[k].sections =
                       Append(@, [index |-> i, name |-> 0, payload |-> p])]
            /\ a' = a
    BY <1>5 DEF AddSection, Edit
  <2> DEFINE ss == b.blocks[k].sections
  <2>2. /\ b.blocks[k].type \in DOMAIN PayloadsOf
        /\ ss \in Seq(AllSections) /\ ss # << >>
    BY SectionsOfFile
  <2>3. PICK i \in SectionIds, p \in PayloadsOf[b.blocks[k].type] :
          /\ b' = [b EXCEPT !.blocks[k].sections =
                     Append(@, [index |-> i, name |-> 0, payload |-> p])]
          /\ a' = a
    BY <2>1
  <2> DEFINE tt == Append(ss, [index |-> i, name |-> 0, payload |-> p])
  <2>4. [index |-> i, name |-> 0, payload |-> p] \in AllSections
    BY <2>2, EditsAssumption DEF AllSections
  <2>5. tt \in Seq(AllSections) /\ tt # << >> BY <2>2, <2>4
  <2>6. b' = [b EXCEPT !.blocks[k].sections = tt] /\ a' = a BY <2>3
  <2> HIDE DEF tt, ss
  <2> QED BY <2>3, <2>5, <2>6, WithSections
<1>6. CASE RemoveSection
  <2>1. PICK k \in DOMAIN b.blocks : \E i \in DOMAIN b.blocks[k].sections :
            /\ Len(b.blocks[k].sections) > 1
            /\ b' = [b EXCEPT !.blocks[k].sections = RemoveAt(@, i)]
            /\ a' = a
    BY <1>6 DEF RemoveSection, Edit
  <2> DEFINE ss == b.blocks[k].sections
  <2>2. ss \in Seq(AllSections) BY SectionsOfFile
  <2>3. PICK i \in DOMAIN ss :
            /\ Len(ss) > 1 /\ a' = a
            /\ b' = [b EXCEPT !.blocks[k].sections = RemoveAt(@, i)]
    BY <2>1
  <2> DEFINE tt == RemoveAt(ss, i)
  <2>4. tt \in Seq(AllSections) /\ Len(tt) = Len(ss) - 1 BY <2>2, WithoutOne
  <2>5. b' = [b EXCEPT !.blocks[k].sections = tt] BY <2>3
  <2>6. Len(ss) \in Nat BY <2>2, LenProperties
  <2> HIDE DEF tt, ss
  <2>7. tt # << >> BY <2>3, <2>4, <2>6, EmptySeq
  <2> QED BY <2>3, <2>4, <2>5, <2>7, WithSections
<1>7. CASE AddBlock
  <2>1. PICK type \in DOMAIN PayloadsOf : \E p \in PayloadsOf[type] :
          /\ b' = [b EXCEPT !.blocks = Append(@,
                     [type |-> type, sections |-> << [index |-> 1, name |-> 0, payload |-> p] >>])]
          /\ a' = a
    BY <1>7 DEF AddBlock, Edit
  <2>7. PICK p \in PayloadsOf[type] :
          /\ b' = [b EXCEPT !.blocks = Append(@,
                     [type |-> type, sections |-> << [index |-> 1, name |-> 0, payload |-> p] >>])]
          /\ a' = a
    BY <2>1
  <2> DEFINE section == [index |-> 1, name |-> 0, payload |-> p]
             block == [type |-> type, sections |-> << section >>]
  <2>2. section \in AllSections BY EditsAssumption DEF AllSections
  <2> HIDE DEF section
  <2>3. << section >> \in Seq(AllSections) /\ << section >> # << >> BY <2>2
  <2>4. block \in AllBlocks BY <2>3 DEF AllBlocks
  <2>5. b' = [b EXCEPT !.blocks = Append(@, block)] BY <2>7 DEF section
  <2> HIDE DEF block
  <2>6. Append(b.blocks, block) \in Seq(AllBlocks) BY <1>1, <2>4
  <2> QED BY <2>5, <2>6, <2>7 DEF AllFiles
<1>8. CASE RemoveBlock
  <2>1. PICK k \in DOMAIN b.blocks : b' = [b EXCEPT !.blocks = RemoveAt(@, k)] /\ a' = a
    BY <1>8 DEF RemoveBlock, Edit
  <2>2. RemoveAt(b.blocks, k) \in Seq(AllBlocks) BY <1>1, WithoutOne
  <2> QED BY <2>1, <2>2 DEF AllFiles
<1>9. CASE Reorder
  <2>1. CASE b' = [b EXCEPT !.blocks = Reverse(@)] /\ a' = a
    <3>1. Reverse(b.blocks) \in Seq(AllBlocks) BY <1>1, Reversed
    <3> QED BY <2>1, <3>1 DEF AllFiles
  <2>2. ASSUME NEW k \in DOMAIN b.blocks,
               b' = [b EXCEPT !.blocks[k].sections = Reverse(@)], a' = a
        PROVE  b' \in AllFiles
    <3> DEFINE ss == b.blocks[k].sections
               tt == Reverse(ss)
    <3>1. ss \in Seq(AllSections) /\ ss # << >> BY SectionsOfFile
    <3>2. tt \in Seq(AllSections) /\ Len(tt) = Len(ss) BY <3>1, Reversed
    <3>3. b' = [b EXCEPT !.blocks[k].sections = tt] BY <2>2
    <3> HIDE DEF tt, ss
    <3>4. tt # << >> BY <3>1, <3>2, EmptySeq
    <3> QED BY <3>2, <3>3, <3>4, WithSections
  <2> QED BY <1>9, <2>1, <2>2 DEF Reorder, Edit
<1>10. CASE UNCHANGED vars BY <1>10 DEF vars
<1> QED BY <1>2, <1>3, <1>4, <1>5, <1>6, <1>7, <1>8, <1>9, <1>10 DEF Next

LEMMA FilesHold == Spec => []DiffInv
<1>1. Init => DiffInv BY FilesAssumption DEF Init, DiffInv
<1> QED BY <1>1, StepKeepsFiles, PTL DEF Spec

-----------------------------------------------------------------------------
(***************************************************************************)
(* The first and the last of some numbers.                                 *)
(***************************************************************************)

IsFirst(S, m) == m \in S /\ \A j \in S : m <= j

\* Induction over numbers, for a set of them.
LEMMA LeastNumber ==
  ASSUME NEW S \in SUBSET Nat, S # {}
  PROVE  \E m : IsFirst(S, m)
<1> DEFINE R == OpToRel(<, Nat)
<1>1. \A m, n \in Nat : << m, n >> \in R <=> m < n BY DEF OpToRel
<1>2. PICK m \in S : \A n \in S : << n, m >> \notin R
  <2> HIDE DEF R
  <2>1. IsWellFoundedOn(R, Nat) BY NatLessThanWellFounded DEF R
  <2> QED BY <2>1, WFMin, Zenon
<1> HIDE DEF R
<1>3. \A n \in S : n \in Nat /\ m \in Nat /\ ~(n < m) BY <1>1, <1>2
<1>4. \A n \in S : m <= n BY <1>3
<1> QED BY <1>2, <1>4 DEF IsFirst

\* What holds of a number once it holds of all smaller ones holds of all.
LEMMA FromBelow ==
  ASSUME NEW S, NEW n \in Nat,
         \A i \in 0 .. n : (\A j \in 0 .. i - 1 : j \in S) => i \in S
  PROVE  \A i \in 0 .. n : i \in S
<1> DEFINE T == {i \in 0 .. n : i \notin S}
<1> SUFFICES ASSUME T # {} PROVE FALSE
  OBVIOUS
<1>1. PICK m : IsFirst(T, m) BY LeastNumber
<1>2. m \in 0 .. n /\ m \notin S /\ \A j \in 0 .. n : j \notin S => m <= j
  BY <1>1 DEF IsFirst
<1>3. \A j \in 0 .. m - 1 : j \in S BY <1>2
<1> QED BY <1>2, <1>3

\* Of some places in a list one is the last, and the map of blocks or sections
\* ends up with it.
LEMMA LastExists ==
  ASSUME NEW n \in Nat, NEW S \in SUBSET (1 .. n), S # {}
  PROVE  LastOf(S) \in S /\ LastIn(S) = {LastOf(S)}
<1> DEFINE T == {k \in Nat : n - k \in S}
<1>1. T # {}
  <2>1. PICK s \in S : TRUE OBVIOUS
  <2>2. n - s \in Nat /\ n - (n - s) = s OBVIOUS
  <2> QED BY <2>1, <2>2
<1>2. PICK k : IsFirst(T, k) BY <1>1, LeastNumber
<1>3. k \in Nat /\ n - k \in S /\ \A j \in T : k <= j BY <1>2 DEF IsFirst
<1>4. \A j \in S : j <= n - k
  <2> SUFFICES ASSUME NEW j \in S PROVE j <= n - k
    OBVIOUS
  <2>1. n - j \in Nat /\ n - (n - j) = j OBVIOUS
  <2>2. n - j \in T BY <2>1
  <2>3. k <= n - j BY <1>3, <2>2
  <2> QED BY <1>3, <2>1, <2>3
<1> HIDE DEF T
<1>5. \A j \in S : (\A l \in S : l <= j) => j = n - k BY <1>3, <1>4
<1>6. LastOf(S) = n - k BY <1>3, <1>4, <1>5 DEF LastOf
<1>7. LastIn(S) = {n - k} BY <1>3, <1>4, <1>5 DEF LastIn
<1> QED BY <1>3, <1>6, <1>7

-----------------------------------------------------------------------------
(***************************************************************************)
(* Looking up blocks and sections.                                         *)
(***************************************************************************)

TheBlock(f, type) == f.blocks[LastOf({k \in DOMAIN f.blocks : f.blocks[k].type = type})]

HasSection(ss, i) == \E j \in DOMAIN ss : ss[j].index = i

TheSection(ss, i) == ss[LastOf({j \in DOMAIN ss : ss[j].index = i})]

\* What a reader sees under an index of a list of sections.
Seen(ss, i) ==
  IF HasSection(ss, i) THEN {<< TheSection(ss, i).name, TheSection(ss, i).payload >>} ELSE {}

LEMMA BlockIs ==
  ASSUME NEW f \in AllFiles, NEW type
  PROVE  /\ HasBlock(f, type) => /\ BlockOf(f, type) = {TheBlock(f, type)}
                                 /\ TheBlock(f, type).type = type
                                 /\ TheBlock(f, type).sections \in Seq(AllSections)
                                 /\ TheBlock(f, type).sections # << >>
         /\ ~HasBlock(f, type) => BlockOf(f, type) = {}
<1> DEFINE ks == {k \in DOMAIN f.blocks : f.blocks[k].type = type}
<1>1. f.blocks \in Seq(AllBlocks) /\ Len(f.blocks) \in Nat /\ ks \in SUBSET (1 .. Len(f.blocks))
  BY DEF AllFiles
<1>2. BlockOf(f, type) = {f.blocks[j] : j \in LastIn(ks)} BY DEF BlockOf
<1>3. CASE HasBlock(f, type)
  <2>1. ks # {} BY <1>3 DEF HasBlock
  <2> HIDE DEF ks
  <2>2. LastOf(ks) \in ks /\ LastIn(ks) = {LastOf(ks)} BY <1>1, <2>1, LastExists
  <2>3. TheBlock(f, type) = f.blocks[LastOf(ks)] BY DEF TheBlock, ks
  <2>4. LastOf(ks) \in DOMAIN f.blocks /\ f.blocks[LastOf(ks)].type = type BY <2>2 DEF ks
  <2>5. /\ f.blocks[LastOf(ks)].sections \in Seq(AllSections)
        /\ f.blocks[LastOf(ks)].sections # << >>
    BY <2>4, SectionsOfFile
  <2> QED BY <1>2, <1>3, <2>2, <2>3, <2>4, <2>5
<1>4. CASE ~HasBlock(f, type)
  <2>1. ks = {} BY <1>4 DEF HasBlock
  <2>2. LastIn(ks) = {} BY <2>1 DEF LastIn
  <2> QED BY <1>2, <1>4, <2>2
<1> QED BY <1>3, <1>4

LEMMA SectionIs ==
  ASSUME NEW ss \in Seq(AllSections), NEW i
  PROVE  /\ HasSection(ss, i) => /\ SectionAt(ss, i) = {TheSection(ss, i)}
                                 /\ TheSection(ss, i).index = i
                                 /\ TheSection(ss, i) \in AllSections
         /\ ~HasSection(ss, i) => SectionAt(ss, i) = {}
<1> DEFINE is == {k \in DOMAIN ss : ss[k].index = i}
<1>1. Len(ss) \in Nat /\ is \in SUBSET (1 .. Len(ss)) OBVIOUS
<1>2. SectionAt(ss, i) = {ss[j] : j \in LastIn(is)} BY DEF SectionAt
<1>3. CASE HasSection(ss, i)
  <2>1. is # {} BY <1>3 DEF HasSection
  <2> HIDE DEF is
  <2>2. LastOf(is) \in is /\ LastIn(is) = {LastOf(is)} BY <1>1, <2>1, LastExists
  <2>3. TheSection(ss, i) = ss[LastOf(is)] BY DEF TheSection, is
  <2>4. LastOf(is) \in 1 .. Len(ss) /\ ss[LastOf(is)].index = i BY <1>1, <2>2 DEF is
  <2>5. ss[LastOf(is)] \in AllSections BY <2>4, ElementOfSeq
  <2> QED BY <1>2, <1>3, <2>2, <2>3, <2>4, <2>5
<1>4. CASE ~HasSection(ss, i)
  <2>1. is = {} BY <1>4 DEF HasSection
  <2>2. LastIn(is) = {} BY <2>1 DEF LastIn
  <2> QED BY <1>2, <1>4, <2>2
<1> QED BY <1>3, <1>4

LEMMA VisibleIs ==
  ASSUME NEW f \in AllFiles, NEW type, NEW i
  PROVE  Visible(f, type, i) =
           IF HasBlock(f, type) THEN Seen(TheBlock(f, type).sections, i) ELSE {}
<1> DEFINE ks == {k \in DOMAIN f.blocks : f.blocks[k].type = type}
           sections == f.blocks[LastOf(ks)].sections
           is == {j \in DOMAIN sections : sections[j].index = i}
<1>1. HasBlock(f, type) <=> ks # {} BY DEF HasBlock
<1>2. HasSection(sections, i) <=> is # {} BY DEF HasSection
<1>3. TheBlock(f, type).sections = sections BY DEF TheBlock
<1>4. TheSection(sections, i) = sections[LastOf(is)] BY DEF TheSection
<1>5. Visible(f, type, i) =
        IF ks = {} THEN {} ELSE IF is = {} THEN {}
        ELSE {<< sections[LastOf(is)].name, sections[LastOf(is)].payload >>}
  BY DEF Visible
<1> HIDE DEF ks, sections, is
<1>6. Seen(sections, i) = IF is = {} THEN {}
                          ELSE {<< sections[LastOf(is)].name, sections[LastOf(is)].payload >>}
  BY <1>2, <1>4 DEF Seen
<1> QED BY <1>1, <1>3, <1>5, <1>6

-----------------------------------------------------------------------------
(***************************************************************************)
(* What items there are.                                                   *)
(***************************************************************************)

LEMMA ItemIs ==
  ASSUME NEW kind, NEW at, NEW old, NEW new
  PROVE  /\ Item(kind, at, old, new).kind = kind
         /\ Item(kind, at, old, new).at = at
         /\ Item(kind, at, old, new).category =
              IF old = {} THEN "added" ELSE IF new = {} THEN "removed" ELSE "modified"
BY DEF Item

LEMMA AtIs ==
  ASSUME NEW type, NEW index, NEW field, NEW place
  PROVE  /\ At(type, index, field, place).type = type
         /\ At(type, index, field, place).index = index
         /\ \A n : /\ [At(type, index, field, place) EXCEPT !.field = n].type = type
                   /\ [At(type, index, field, place) EXCEPT !.field = n].index = index
                   /\ [At(type, index, field, place) EXCEPT !.place = n].type = type
                   /\ [At(type, index, field, place) EXCEPT !.place = n].index = index
BY DEF At

LEMMA ChangedIs ==
  ASSUME NEW kind, NEW at, NEW old, NEW new
  PROVE  /\ old = new => Changed(kind, at, old, new) = {}
         /\ old # new => Changed(kind, at, old, new) # {}
         /\ \A x \in Changed(kind, at, old, new) : x.kind = kind /\ x.at = at
BY ItemIs DEF Changed

\* Where an item of a section or of its decoded value is.
IsAt(x, type, index) == x.at.type = type /\ x.at.index = index

LEMMA DecodedPlace ==
  ASSUME NEW type, NEW index, NEW p, NEW q, NEW x \in DecodedItems(type, index, p, q)
  PROVE  x.kind = "decoded" /\ IsAt(x, type, index)
<1> DEFINE c == Lookup(Differs, type)
           at == At(type, index, "decoded", Nowhere)
<1>1. c # Opaque /\ (\/ \E v \in Decode(c, p), w \in Decode(c, q) : x \in ValueItems(c, at, v, w)
                     \/ x \in Changed("decoded", at, Result(c, p), Result(c, q)))
  BY DEF DecodedItems
<1>2. /\ at.type = type /\ at.index = index
      /\ \A n : /\ [at EXCEPT !.field = n].type = type /\ [at EXCEPT !.field = n].index = index
                /\ [at EXCEPT !.place = n].type = type /\ [at EXCEPT !.place = n].index = index
  BY AtIs
<1> HIDE DEF c, at
<1>3. CASE x \in Changed("decoded", at, Result(c, p), Result(c, q))
  BY <1>2, <1>3, ChangedIs DEF IsAt
<1>4. ASSUME NEW v, NEW w, x \in ValueItems(c, at, v, w)
      PROVE  x.kind = "decoded" /\ IsAt(x, type, index)
  <2> DEFINE old == List(c, v)
             new == List(c, w)
             Here(l, i) == IF i \in DOMAIN l THEN {l[i]} ELSE {}
  <2>1. \/ \E n \in DOMAIN Fields(c, v) :
             x \in Changed("decoded", [at EXCEPT !.field = n], Fields(c, v)[n], Fields(c, w)[n])
        \/ \E i : x = Item("decoded", [at EXCEPT !.place = i], Here(old, i), Here(new, i))
    BY <1>4 DEF ValueItems
  <2> HIDE DEF old, new, Here
  <2>2. ASSUME NEW n, x \in Changed("decoded", [at EXCEPT !.field = n], Fields(c, v)[n], Fields(c, w)[n])
        PROVE  x.kind = "decoded" /\ IsAt(x, type, index)
    <3> DEFINE there == [at EXCEPT !.field = n]
    <3>1. there.type = type /\ there.index = index BY <1>2
    <3> HIDE DEF there
    <3>2. x.kind = "decoded" /\ x.at = there BY <2>2, ChangedIs DEF there
    <3> QED BY <3>1, <3>2 DEF IsAt
  <2>3. ASSUME NEW i, x = Item("decoded", [at EXCEPT !.place = i], Here(old, i), Here(new, i))
        PROVE  x.kind = "decoded" /\ IsAt(x, type, index)
    <3> DEFINE there == [at EXCEPT !.place = i]
    <3>1. there.type = type /\ there.index = index BY <1>2
    <3> HIDE DEF there
    <3>2. x.kind = "decoded" /\ x.at = there BY <2>3, ItemIs DEF there
    <3> QED BY <3>1, <3>2 DEF IsAt
  <2> QED BY <2>1, <2>2, <2>3
<1> QED BY <1>1, <1>3, <1>4

\* A section that is there on both sides: its items, and when there is one of the
\* section itself.
LEMMA PairIs ==
  ASSUME NEW type, NEW s, NEW t
  PROVE  /\ \A x \in PairItems(type, s, t) :
              x.kind \in {"section", "decoded"} /\ IsAt(x, type, s.index)
         /\ (\E x \in PairItems(type, s, t) : x.kind = "section")
              <=> << s.name, s.payload >> # << t.name, t.payload >>
         /\ \A x : x \in PairItems(type, s, t) /\ x.kind = "decoded" <=>
              s.payload # t.payload /\ x \in DecodedItems(type, s.index, s.payload, t.payload)
<1> DEFINE Here(field) == At(type, s.index, field, Nowhere)
           N == Changed("section", Here("name"), << s.name >>, << t.name >>)
           Z == Changed("section", Here("size"), << Len(s.payload) >>, << Len(t.payload) >>)
           C == Changed("section", Here("content"), s.payload, t.payload)
           D == IF s.payload = t.payload THEN {}
                ELSE DecodedItems(type, s.index, s.payload, t.payload)
<1>1. PairItems(type, s, t) = N \cup Z \cup C \cup D BY DEF PairItems
<1>2. \A field : Here(field).type = type /\ Here(field).index = s.index BY AtIs
<1>3. /\ \A x \in N \cup Z \cup C : x.kind = "section" /\ IsAt(x, type, s.index)
      /\ N # {} <=> s.name # t.name
      /\ Z # {} => s.payload # t.payload
      /\ C # {} <=> s.payload # t.payload
  <2>1. << s.name >> = << t.name >> <=> s.name = t.name OBVIOUS
  <2>2. << Len(s.payload) >> # << Len(t.payload) >> => s.payload # t.payload OBVIOUS
  <2> DEFINE u == Here("name")
             v == Here("size")
             w == Here("content")
  <2>3. \A y \in {u, v, w} : y.type = type /\ y.index = s.index BY <1>2
  <2> HIDE DEF Here, u, v, w
  <2>4. \A x \in N \cup Z \cup C : x.kind = "section" /\ x.at \in {u, v, w}
    BY ChangedIs DEF u, v, w
  <2>5. \A x \in N \cup Z \cup C : x.kind = "section" /\ IsAt(x, type, s.index)
    BY <2>3, <2>4 DEF IsAt
  <2>6. N # {} <=> s.name # t.name BY <2>1, ChangedIs
  <2>7. Z # {} => s.payload # t.payload BY <2>2, ChangedIs
  <2>8. C # {} <=> s.payload # t.payload BY ChangedIs
  <2> QED BY <2>5, <2>6, <2>7, <2>8
<1>4. \A x \in D : x.kind = "decoded" /\ IsAt(x, type, s.index) BY DecodedPlace
<1>5. << s.name, s.payload >> # << t.name, t.payload >> <=> s.name # t.name \/ s.payload # t.payload
  OBVIOUS
<1>6. \A x : x \in D <=> s.payload # t.payload
                         /\ x \in DecodedItems(type, s.index, s.payload, t.payload)
  OBVIOUS
<1> HIDE DEF N, Z, C, D
<1>7. \A x \in PairItems(type, s, t) :
        /\ x.kind \in {"section", "decoded"} /\ IsAt(x, type, s.index)
        /\ x.kind = "section" <=> x \in N \cup Z \cup C
        /\ x.kind = "decoded" <=> x \in D
  BY <1>1, <1>3, <1>4
<1>8. (\E x \in PairItems(type, s, t) : x.kind = "section") <=> N # {} \/ Z # {} \/ C # {}
  BY <1>1, <1>7
<1>9. \A x : x \in PairItems(type, s, t) /\ x.kind = "decoded" <=> x \in D BY <1>1, <1>4, <1>7
<1> QED BY <1>3, <1>5, <1>6, <1>7, <1>8, <1>9

\* A section that is there on one side only.
OneHas(old, new, i) == HasSection(old, i) <=> ~HasSection(new, i)

LoneSection(type, old, new, i) ==
  Item("section", At(type, i, "", Nowhere),
       {SectionDigest(s) : s \in SectionAt(old, i)}, {SectionDigest(s) : s \in SectionAt(new, i)})

LEMMA LoneIs ==
  ASSUME NEW type, NEW old, NEW new, NEW i
  PROVE  /\ LoneSection(type, old, new, i).kind = "section"
         /\ IsAt(LoneSection(type, old, new, i), type, i)
<1> DEFINE at == At(type, i, "", Nowhere)
           was == {SectionDigest(s) : s \in SectionAt(old, i)}
           is == {SectionDigest(s) : s \in SectionAt(new, i)}
<1>1. LoneSection(type, old, new, i) = Item("section", at, was, is) BY DEF LoneSection
<1>2. at.type = type /\ at.index = i BY DEF At
<1> HIDE DEF at, was, is
<1> QED BY <1>1, <1>2, ItemIs DEF IsAt

LEMMA SectionItemsAre ==
  ASSUME NEW type, NEW old \in Seq(AllSections), NEW new \in Seq(AllSections)
  PROVE  \A x : x \in SectionItems(type, old, new) <=>
           \E i : \/ /\ HasSection(old, i) /\ HasSection(new, i)
                     /\ x \in PairItems(type, TheSection(old, i), TheSection(new, i))
                  \/ OneHas(old, new, i) /\ x = LoneSection(type, old, new, i)
<1> DEFINE Of(i) ==
      LET x == SectionAt(old, i)
          y == SectionAt(new, i)
      IN IF x # {} /\ y # {}
         THEN UNION {PairItems(type, s, t) : s \in x, t \in y}
         ELSE {Item("section", At(type, i, "", Nowhere),
                    {SectionDigest(s) : s \in x}, {SectionDigest(s) : s \in y})}
<1>1. SectionItems(type, old, new) = UNION {Of(i) : i \in {s.index : s \in Range(old) \cup Range(new)}}
  BY DEF SectionItems
<1>2. \A i : i \in {s.index : s \in Range(old) \cup Range(new)} <=> HasSection(old, i) \/ HasSection(new, i)
  BY DEF Range, HasSection
<1>3. ASSUME NEW i, HasSection(old, i), HasSection(new, i)
      PROVE  Of(i) = PairItems(type, TheSection(old, i), TheSection(new, i))
  <2>1. SectionAt(old, i) = {TheSection(old, i)} /\ SectionAt(new, i) = {TheSection(new, i)}
    BY <1>3, SectionIs
  <2> QED BY <2>1
<1>4. ASSUME NEW i, OneHas(old, new, i)
      PROVE  Of(i) = {LoneSection(type, old, new, i)}
  <2> DEFINE A == UNION {PairItems(type, s, t) : s \in SectionAt(old, i), t \in SectionAt(new, i)}
             L == Item("section", At(type, i, "", Nowhere),
                       {SectionDigest(s) : s \in SectionAt(old, i)},
                       {SectionDigest(s) : s \in SectionAt(new, i)})
  <2>1. ~(SectionAt(old, i) # {} /\ SectionAt(new, i) # {}) BY <1>4, SectionIs DEF OneHas
  <2>2. Of(i) = IF SectionAt(old, i) # {} /\ SectionAt(new, i) # {} THEN A ELSE {L} OBVIOUS
  <2>3. L = LoneSection(type, old, new, i) BY DEF LoneSection
  <2> HIDE DEF A, L, Of
  <2> QED BY <2>1, <2>2, <2>3
<1> HIDE DEF Of
<1>5. \A x : x \in SectionItems(type, old, new) <=>
        \E i : (HasSection(old, i) \/ HasSection(new, i)) /\ x \in Of(i)
  BY <1>1, <1>2
<1>6. \A i : /\ HasSection(old, i) \/ HasSection(new, i)
                  <=> (HasSection(old, i) /\ HasSection(new, i)) \/ OneHas(old, new, i)
             /\ ~(HasSection(old, i) /\ HasSection(new, i) /\ OneHas(old, new, i))
  BY DEF OneHas
<1> QED BY <1>3, <1>4, <1>5, <1>6

\* The items of a block that is there on both sides.
LEMMA SectionItemAt ==
  ASSUME NEW type, NEW old \in Seq(AllSections), NEW new \in Seq(AllSections)
  PROVE  /\ \A x \in SectionItems(type, old, new) :
              x.kind \in {"section", "decoded"} /\ x.at.type = type
         /\ \A i : Seen(old, i) # Seen(new, i) <=>
              \E x \in SectionItems(type, old, new) : x.kind = "section" /\ IsAt(x, type, i)
<1> DEFINE Both(i) == HasSection(old, i) /\ HasSection(new, i)
           OneOf(i) == OneHas(old, new, i)
           Pair(i) == PairItems(type, TheSection(old, i), TheSection(new, i))
           Lone(i) == LoneSection(type, old, new, i)
<1>1. \A x : x \in SectionItems(type, old, new) <=>
        \E i : (Both(i) /\ x \in Pair(i)) \/ (OneOf(i) /\ x = Lone(i))
  BY SectionItemsAre
<1>2. \A i : Lone(i).kind = "section" /\ IsAt(Lone(i), type, i) BY LoneIs
<1>3. \A i : Both(i) =>
        /\ \A x \in Pair(i) : x.kind \in {"section", "decoded"} /\ IsAt(x, type, i)
        /\ (\E x \in Pair(i) : x.kind = "section") <=>
             << TheSection(old, i).name, TheSection(old, i).payload >>
               # << TheSection(new, i).name, TheSection(new, i).payload >>
  <2> SUFFICES ASSUME NEW i, HasSection(old, i), HasSection(new, i)
               PROVE /\ \A x \in Pair(i) : x.kind \in {"section", "decoded"} /\ IsAt(x, type, i)
                     /\ (\E x \in Pair(i) : x.kind = "section") <=>
                          << TheSection(old, i).name, TheSection(old, i).payload >>
                            # << TheSection(new, i).name, TheSection(new, i).payload >>
    OBVIOUS
  <2>1. TheSection(old, i).index = i BY SectionIs
  <2> QED BY <2>1, PairIs
<1>4. \A i : /\ Both(i) => (Seen(old, i) # Seen(new, i) <=>
                  << TheSection(old, i).name, TheSection(old, i).payload >>
                    # << TheSection(new, i).name, TheSection(new, i).payload >>)
             /\ OneOf(i) => Seen(old, i) # Seen(new, i)
             /\ Both(i) \/ OneOf(i) \/ Seen(old, i) = Seen(new, i)
  BY DEF Seen, OneHas
<1> HIDE DEF Both, OneOf, Pair, Lone
<1>5. ASSUME NEW x, NEW i, (Both(i) /\ x \in Pair(i)) \/ (OneOf(i) /\ x = Lone(i))
      PROVE  x.kind \in {"section", "decoded"} /\ IsAt(x, type, i)
  BY <1>2, <1>3, <1>5
<1>6. \A x \in SectionItems(type, old, new) : x.kind \in {"section", "decoded"} /\ x.at.type = type
  BY <1>1, <1>5 DEF IsAt
<1>7. ASSUME NEW i, Seen(old, i) # Seen(new, i)
      PROVE  \E x \in SectionItems(type, old, new) : x.kind = "section" /\ IsAt(x, type, i)
  <2>1. CASE Both(i)
    <3>1. PICK x \in Pair(i) : x.kind = "section" BY <1>3, <1>4, <1>7, <2>1
    <3> QED BY <1>1, <1>3, <2>1, <3>1
  <2>2. CASE OneOf(i) BY <1>1, <1>2, <2>2
  <2> QED BY <1>4, <1>7, <2>1, <2>2
<1>8. ASSUME NEW i, NEW x \in SectionItems(type, old, new), x.kind = "section", IsAt(x, type, i)
      PROVE  Seen(old, i) # Seen(new, i)
  <2>1. PICK j : (Both(j) /\ x \in Pair(j)) \/ (OneOf(j) /\ x = Lone(j)) BY <1>1
  <2>2. IsAt(x, type, j) BY <1>5, <2>1
  <2>3. j = i BY <1>8, <2>2 DEF IsAt
  <2>4. CASE Both(i) /\ x \in Pair(i) BY <1>3, <1>4, <1>8, <2>4
  <2>5. CASE OneOf(i) BY <1>4, <2>5
  <2> QED BY <2>1, <2>3, <2>4, <2>5
<1> QED BY <1>6, <1>7, <1>8

\* A block that is there on one side only.
LoneBlock(x, y, type) ==
  Item("block", At(type, Nowhere, "", Nowhere),
       {BlockDigest(s) : s \in BlockOf(x, type)}, {BlockDigest(t) : t \in BlockOf(y, type)})

LEMMA LoneBlockIs ==
  ASSUME NEW x \in AllFiles, NEW y \in AllFiles, NEW type, HasBlock(x, type) <=> ~HasBlock(y, type)
  PROVE  /\ LoneBlock(x, y, type).kind = "block"
         /\ LoneBlock(x, y, type).at.type = type
         /\ LoneBlock(x, y, type).category = IF HasBlock(x, type) THEN "removed" ELSE "added"
<1> DEFINE at == At(type, Nowhere, "", Nowhere)
           was == {BlockDigest(s) : s \in BlockOf(x, type)}
           is == {BlockDigest(t) : t \in BlockOf(y, type)}
<1>1. LoneBlock(x, y, type) = Item("block", at, was, is) BY DEF LoneBlock
<1>2. at.type = type BY DEF At
<1>3. HasBlock(x, type) => was # {} /\ is = {}
  <2>1. HasBlock(x, type) => BlockOf(x, type) # {} /\ BlockOf(y, type) = {} BY BlockIs
  <2> QED BY <2>1
<1>4. ~HasBlock(x, type) => was = {}
  <2>1. ~HasBlock(x, type) => BlockOf(x, type) = {} BY BlockIs
  <2> QED BY <2>1
<1> HIDE DEF at, was, is
<1> QED BY <1>1, <1>2, <1>3, <1>4, ItemIs

LEMMA BlockItemsAre ==
  ASSUME NEW x \in AllFiles, NEW y \in AllFiles
  PROVE  \A z : z \in BlockItems(x, y) <=>
           \E type : \/ /\ HasBlock(x, type) /\ HasBlock(y, type)
                        /\ z \in SectionItems(type, TheBlock(x, type).sections,
                                                    TheBlock(y, type).sections)
                     \/ /\ HasBlock(x, type) <=> ~HasBlock(y, type)
                        /\ z = LoneBlock(x, y, type)
<1> DEFINE Of(type) ==
      LET old == BlockOf(x, type)
          new == BlockOf(y, type)
      IN IF old # {} /\ new # {}
         THEN UNION {SectionItems(type, s.sections, t.sections) : s \in old, t \in new}
         ELSE {Item("block", At(type, Nowhere, "", Nowhere),
                    {BlockDigest(s) : s \in old}, {BlockDigest(t) : t \in new})}
<1>1. BlockItems(x, y) = UNION {Of(type) : type \in TypesOf(x, y)} BY DEF BlockItems
<1>2. \A type : type \in TypesOf(x, y) <=> HasBlock(x, type) \/ HasBlock(y, type)
  BY DEF TypesOf, HasBlock
<1>3. ASSUME NEW type, HasBlock(x, type), HasBlock(y, type)
      PROVE  Of(type) = SectionItems(type, TheBlock(x, type).sections, TheBlock(y, type).sections)
  <2>1. BlockOf(x, type) = {TheBlock(x, type)} /\ BlockOf(y, type) = {TheBlock(y, type)}
    BY <1>3, BlockIs
  <2> QED BY <2>1
<1>4. ASSUME NEW type, HasBlock(x, type) <=> ~HasBlock(y, type)
      PROVE  Of(type) = {LoneBlock(x, y, type)}
  <2> DEFINE A == UNION {SectionItems(type, s.sections, t.sections) :
                           s \in BlockOf(x, type), t \in BlockOf(y, type)}
             L == Item("block", At(type, Nowhere, "", Nowhere),
                       {BlockDigest(s) : s \in BlockOf(x, type)},
                       {BlockDigest(t) : t \in BlockOf(y, type)})
  <2>1. ~(BlockOf(x, type) # {} /\ BlockOf(y, type) # {}) BY <1>4, BlockIs
  <2>2. Of(type) = IF BlockOf(x, type) # {} /\ BlockOf(y, type) # {} THEN A ELSE {L} OBVIOUS
  <2>3. L = LoneBlock(x, y, type) BY DEF LoneBlock
  <2> HIDE DEF A, L, Of
  <2> QED BY <2>1, <2>2, <2>3
<1> HIDE DEF Of
<1>5. \A z : z \in BlockItems(x, y) <=>
        \E type : (HasBlock(x, type) \/ HasBlock(y, type)) /\ z \in Of(type)
  BY <1>1, <1>2
<1> QED BY <1>3, <1>4, <1>5

\* The items under a type, of every kind.
LEMMA BlockItemAt ==
  ASSUME NEW x \in AllFiles, NEW y \in AllFiles, NEW z, NEW type, z.at.type = type
  PROVE  z \in BlockItems(x, y) <=>
           \/ /\ HasBlock(x, type) /\ HasBlock(y, type)
              /\ z \in SectionItems(type, TheBlock(x, type).sections, TheBlock(y, type).sections)
           \/ /\ HasBlock(x, type) <=> ~HasBlock(y, type)
              /\ z = LoneBlock(x, y, type)
<1>1. ASSUME NEW t, HasBlock(x, t), HasBlock(y, t),
             z \in SectionItems(t, TheBlock(x, t).sections, TheBlock(y, t).sections)
      PROVE  t = type
  <2>1. TheBlock(x, t).sections \in Seq(AllSections) /\ TheBlock(y, t).sections \in Seq(AllSections)
    BY <1>1, BlockIs
  <2> DEFINE old == TheBlock(x, t).sections
             new == TheBlock(y, t).sections
  <2>2. z \in SectionItems(t, old, new) BY <1>1
  <2> HIDE DEF old, new
  <2>3. \A w \in SectionItems(t, old, new) : w.at.type = t
    <3>1. old \in Seq(AllSections) /\ new \in Seq(AllSections) BY <2>1 DEF old, new
    <3>2. /\ \A w \in SectionItems(t, old, new) :
                w.kind \in {"section", "decoded"} /\ w.at.type = t
          /\ \A i : Seen(old, i) # Seen(new, i) <=>
                \E w \in SectionItems(t, old, new) : w.kind = "section" /\ IsAt(w, t, i)
      BY <3>1, SectionItemAt
    <3> QED BY <3>2
  <2> QED BY <2>2, <2>3
<1>2. ASSUME NEW t, HasBlock(x, t) <=> ~HasBlock(y, t), z = LoneBlock(x, y, t)
      PROVE  t = type
  BY <1>2, LoneBlockIs
<1> QED BY <1>1, <1>2, BlockItemsAre

\* The items of the headers.
LEMMA HeaderItemAt ==
  ASSUME NEW x \in AllFiles, NEW y \in AllFiles
  PROVE  /\ \A z \in HeaderItems(x, y) : z.kind = "header"
         /\ \A h \in Headers : x.header[h] # y.header[h] <=>
              \E z \in HeaderItems(x, y) : z.kind = "header" /\ z.at.type = h
<1> DEFINE Of(h) == Changed("header", At(h, Nowhere, "", Nowhere), << x.header[h] >>, << y.header[h] >>)
<1>1. DOMAIN x.header = Headers BY DEF AllFiles
<1>2. HeaderItems(x, y) = UNION {Of(h) : h \in Headers} BY <1>1 DEF HeaderItems
<1>3. ASSUME NEW h
      PROVE  /\ \A z \in Of(h) : z.kind = "header" /\ z.at.type = h
             /\ Of(h) # {} <=> x.header[h] # y.header[h]
  <2> DEFINE at == At(h, Nowhere, "", Nowhere)
  <2>1. at.type = h BY DEF At
  <2>2. << x.header[h] >> = << y.header[h] >> <=> x.header[h] = y.header[h] OBVIOUS
  <2> DEFINE old == << x.header[h] >>
             new == << y.header[h] >>
  <2>4. Of(h) = Changed("header", at, old, new) OBVIOUS
  <2> HIDE DEF at, old, new, Of
  <2>5. /\ \A z \in Changed("header", at, old, new) : z.kind = "header" /\ z.at = at
        /\ Changed("header", at, old, new) # {} <=> old # new
    BY ChangedIs
  <2>3. /\ \A z \in Of(h) : z.kind = "header" /\ z.at = at
        /\ Of(h) # {} <=> << x.header[h] >> # << y.header[h] >>
    BY <2>4, <2>5 DEF old, new
  <2> QED BY <2>1, <2>2, <2>3
<1> HIDE DEF Of
<1> QED BY <1>2, <1>3

-----------------------------------------------------------------------------
(***************************************************************************)
(* A diff is complete: it names what differs, and nothing else.            *)
(***************************************************************************)

LEMMA DiffNames ==
  ASSUME NEW x \in AllFiles, NEW y \in AllFiles, NEW type
  PROVE  /\ (HasBlock(x, type) # HasBlock(y, type))
              <=> \E z \in DiffItems(x, y) :
                    /\ z.kind = "block" /\ z.at.type = type
                    /\ z.category = IF HasBlock(x, type) THEN "removed" ELSE "added"
         /\ HasBlock(x, type) /\ HasBlock(y, type) =>
              \A i : Visible(x, type, i) # Visible(y, type, i)
                       <=> \E z \in DiffItems(x, y) :
                             z.kind = "section" /\ z.at.type = type /\ z.at.index = i
<1>1. \A z : z \in DiffItems(x, y) <=> z \in HeaderItems(x, y) \/ z \in BlockItems(x, y)
  BY DEF DiffItems
<1>2. \A z \in HeaderItems(x, y) : z.kind = "header" BY HeaderItemAt
<1>3. HasBlock(x, type) \in BOOLEAN /\ HasBlock(y, type) \in BOOLEAN BY DEF HasBlock
<1>4. CASE HasBlock(x, type) /\ HasBlock(y, type)
  <2> DEFINE old == TheBlock(x, type).sections
             new == TheBlock(y, type).sections
  <2>1. old \in Seq(AllSections) /\ new \in Seq(AllSections) BY <1>4, BlockIs
  <2>2. \A i : Visible(x, type, i) = Seen(old, i) /\ Visible(y, type, i) = Seen(new, i)
    BY <1>4, VisibleIs
  <2>3. \A z : z.at.type = type => (z \in BlockItems(x, y) <=> z \in SectionItems(type, old, new))
    <3> SUFFICES ASSUME NEW z, z.at.type = type
                 PROVE  z \in BlockItems(x, y) <=> z \in SectionItems(type, old, new)
      OBVIOUS
    <3>1. z \in BlockItems(x, y) <=>
           \/ /\ HasBlock(x, type) /\ HasBlock(y, type)
              /\ z \in SectionItems(type, TheBlock(x, type).sections, TheBlock(y, type).sections)
           \/ /\ HasBlock(x, type) <=> ~HasBlock(y, type)
              /\ z = LoneBlock(x, y, type)
      BY BlockItemAt
    <3> QED BY <1>4, <3>1
  <2> HIDE DEF old, new
  <2>4. /\ \A z \in SectionItems(type, old, new) :
              z.kind \in {"section", "decoded"} /\ z.at.type = type
        /\ \A i : Seen(old, i) # Seen(new, i) <=>
              \E z \in SectionItems(type, old, new) : z.kind = "section" /\ IsAt(z, type, i)
    BY <2>1, SectionItemAt
  <2>5. \A z \in DiffItems(x, y) : z.kind # "block" \/ z.at.type # type
    BY <1>1, <1>2, <2>3, <2>4
  <2>6. \A z : z \in DiffItems(x, y) /\ z.kind = "section" /\ z.at.type = type
                 <=> z \in SectionItems(type, old, new) /\ z.kind = "section"
    BY <1>1, <1>2, <2>3, <2>4
  <2>7. \A i : Visible(x, type, i) # Visible(y, type, i)
                 <=> \E z \in DiffItems(x, y) :
                       z.kind = "section" /\ z.at.type = type /\ z.at.index = i
    BY <2>2, <2>4, <2>6 DEF IsAt
  <2> QED BY <1>3, <1>4, <2>5, <2>7
<1>5. CASE HasBlock(x, type) <=> ~HasBlock(y, type)
  <2>1. /\ LoneBlock(x, y, type).kind = "block"
        /\ LoneBlock(x, y, type).at.type = type
        /\ LoneBlock(x, y, type).category = IF HasBlock(x, type) THEN "removed" ELSE "added"
    BY <1>5, LoneBlockIs
  <2>2. LoneBlock(x, y, type) \in BlockItems(x, y) BY <1>5, <2>1, BlockItemAt
  <2> QED BY <1>1, <1>3, <1>5, <2>1, <2>2
<1>6. CASE ~HasBlock(x, type) /\ ~HasBlock(y, type)
  <2>1. \A z : z.at.type = type => z \notin BlockItems(x, y)
    <3> SUFFICES ASSUME NEW z, z.at.type = type
                 PROVE  z \notin BlockItems(x, y)
      OBVIOUS
    <3>1. z \in BlockItems(x, y) <=>
           \/ /\ HasBlock(x, type) /\ HasBlock(y, type)
              /\ z \in SectionItems(type, TheBlock(x, type).sections, TheBlock(y, type).sections)
           \/ /\ HasBlock(x, type) <=> ~HasBlock(y, type)
              /\ z = LoneBlock(x, y, type)
      BY BlockItemAt
    <3> QED BY <1>6, <3>1
  <2> QED BY <1>1, <1>2, <1>3, <1>6, <2>1
<1> QED BY <1>3, <1>4, <1>5, <1>6

LEMMA DiffComplete == DiffInv => DiffIsComplete
<1> SUFFICES ASSUME a \in AllFiles, b \in AllFiles PROVE DiffIsComplete
  BY DEF DiffInv
<1> DEFINE items == DiffItems(a, b)
<1>1. \A h \in DOMAIN a.header :
        a.header[h] # b.header[h] <=> \E x \in items : x.kind = "header" /\ x.at.type = h
  <2>1. DOMAIN a.header = Headers BY DEF AllFiles
  <2>2. \A x \in HeaderItems(a, b) : x \in items BY DEF DiffItems
  <2>3. \A x \in BlockItems(a, b) : x.kind # "header"
    <3> SUFFICES ASSUME NEW x \in BlockItems(a, b) PROVE x.kind # "header"
      OBVIOUS
    <3>1. PICK type : \/ /\ HasBlock(a, type) /\ HasBlock(b, type)
                         /\ x \in SectionItems(type, TheBlock(a, type).sections,
                                                     TheBlock(b, type).sections)
                      \/ /\ HasBlock(a, type) <=> ~HasBlock(b, type)
                         /\ x = LoneBlock(a, b, type)
      BY BlockItemsAre
    <3>2. CASE /\ HasBlock(a, type) /\ HasBlock(b, type)
               /\ x \in SectionItems(type, TheBlock(a, type).sections, TheBlock(b, type).sections)
      <4> DEFINE old == TheBlock(a, type).sections
                 new == TheBlock(b, type).sections
      <4>1. old \in Seq(AllSections) /\ new \in Seq(AllSections) BY <3>2, BlockIs
      <4>2. x \in SectionItems(type, old, new) BY <3>2
      <4> HIDE DEF old, new
      <4>3. x.kind \in {"section", "decoded"} BY <4>1, <4>2, SectionItemAt
      <4> QED BY <4>3
    <3>3. CASE /\ HasBlock(a, type) <=> ~HasBlock(b, type)
               /\ x = LoneBlock(a, b, type)
      BY <3>3, LoneBlockIs
    <3> QED BY <3>1, <3>2, <3>3
  <2>4. \A x \in items : x.kind = "header" => x \in HeaderItems(a, b) BY <2>3 DEF DiffItems
  <2> HIDE DEF items
  <2> QED BY <2>1, <2>2, <2>4, HeaderItemAt
<1>2. \A type \in DOMAIN PayloadsOf :
        /\ HasBlock(a, type) # HasBlock(b, type)
             <=> \E x \in items :
                   /\ x.kind = "block" /\ x.at.type = type
                   /\ x.category = IF HasBlock(a, type) THEN "removed" ELSE "added"
        /\ HasBlock(a, type) /\ HasBlock(b, type) =>
             \A i \in SectionIds :
               Visible(a, type, i) # Visible(b, type, i)
                 <=> \E x \in items : x.kind = "section" /\ x.at.type = type /\ x.at.index = i
  BY DiffNames
<1>3. ExitCode(items) = 0 => \A type \in DOMAIN PayloadsOf, i \in SectionIds :
                               Visible(a, type, i) = Visible(b, type, i)
  <2> SUFFICES ASSUME ExitCode(items) = 0, NEW type \in DOMAIN PayloadsOf, NEW i \in SectionIds
               PROVE  Visible(a, type, i) = Visible(b, type, i)
    OBVIOUS
  <2>1. items = {} BY DEF ExitCode
  <2> HIDE DEF items
  <2>2. HasBlock(a, type) = HasBlock(b, type) BY <1>2, <2>1
  <2>3. HasBlock(a, type) => Visible(a, type, i) = Visible(b, type, i) BY <1>2, <2>1, <2>2
  <2>4. ~HasBlock(a, type) => Visible(a, type, i) = {} /\ Visible(b, type, i) = {}
    BY <2>2, VisibleIs
  <2> QED BY <2>3, <2>4
<1> HIDE DEF items
<1>4. \A z \in {items} : z = items OBVIOUS
<1> QED BY <1>1, <1>2, <1>3 DEF DiffIsComplete, items

\* A diff names exactly the headers, types and sections that differ, whatever the
\* files hold and however many blocks and sections share a key: appendScalar,
\* diffBlocks and diffSections find what a reader of both files would find, and an
\* exit code of 0 means that a reader sees the same.
THEOREM DiffAlwaysComplete == Spec => []DiffIsComplete
<1>1. DiffInv => DiffIsComplete BY DiffComplete
<1> QED BY <1>1, FilesHold, PTL

-----------------------------------------------------------------------------
(***************************************************************************)
(* Strings with a length byte: what is read is unique.                     *)
(***************************************************************************)

StringsAt(f, p, k) ==
  [j \in Nat |->
     IF k = 0 THEN {[items |-> << >>, next |-> j]}
     ELSE IF j > Len(p) THEN {}
     ELSE IF j + p[j] > Len(p) THEN {}
     ELSE {[s EXCEPT !.items = << SubSeq(p, j + 1, j + p[j]) >> \o @] :
             s \in f[k - 1][j + 1 + p[j]]}]

StringsFrom(p, n) == CHOOSE f : f = [k \in 0 .. n |-> StringsAt(f, p, k)]

LEMMA StringsExist ==
  ASSUME NEW p, NEW n \in Nat
  PROVE  \A k \in 0 .. n : StringsFrom(p, n)[k] = StringsAt(StringsFrom(p, n), p, k)
<1> DEFINE P(m, f) == f = [k \in 0 .. m |-> StringsAt(f, p, k)]
           S == {m \in 0 .. n : \E f : P(m, f)}
<1>1. ASSUME NEW m \in 0 .. n, \A k \in 0 .. m - 1 : k \in S PROVE m \in S
  <2>1. PICK f : \A k \in 0 .. m - 1 : f[k] = StringsAt(f, p, k)
    <3>1. CASE m = 0
      <4>1. 0 .. m - 1 = {} BY <3>1
      <4> QED BY <4>1
    <3>2. CASE m # 0
      <4>1. m - 1 \in 0 .. m - 1 BY <3>2
      <4>2. PICK f : P(m - 1, f) BY <1>1, <4>1
      <4> HIDE DEF S
      <4>3. \A k \in 0 .. m - 1 : f[k] = StringsAt(f, p, k) BY <4>2
      <4> QED BY <4>3
    <3> QED BY <3>1, <3>2
  <2> DEFINE g == [k \in 0 .. m |-> StringsAt(f, p, k)]
  <2>2. \A k \in 0 .. m : g[k] = StringsAt(f, p, k) OBVIOUS
  <2>3. g = [k \in 0 .. m |-> g[k]] OBVIOUS
  <2> HIDE DEF g, S
  <2>4. \A k \in 0 .. m - 1 : g[k] = f[k] BY <2>1, <2>2
  <2>5. ASSUME NEW k \in 0 .. m PROVE StringsAt(g, p, k) = StringsAt(f, p, k)
    <3>1. CASE k = 0 BY <3>1 DEF StringsAt
    <3>2. CASE k # 0
      <4>1. k - 1 \in 0 .. m - 1 BY <3>2
      <4>2. g[k - 1] = f[k - 1] BY <2>4, <4>1
      <4> QED BY <4>2 DEF StringsAt
    <3> QED BY <3>1, <3>2
  <2>6. P(m, g) BY <2>2, <2>3, <2>5
  <2> HIDE DEF P
  <2> QED BY <2>6 DEF S
<1>2. n \in S
  <2> HIDE DEF S
  <2>1. n \in 0 .. n OBVIOUS
  <2> QED BY <1>1, <2>1, FromBelow
<1>3. P(n, StringsFrom(p, n)) BY <1>2 DEF StringsFrom
<1> QED BY <1>3

\* A string as a list of strings has it.
IsString(s) == s = [items |-> s.items, next |-> s.next] /\ s.items \in Seq(Seq(Nat)) /\ s.next \in Nat

\* There is one way at most to read n strings, and each is a list of bytes.
LEMMA StringsUnique ==
  ASSUME NEW p \in Seq(Nat), NEW n \in Nat, NEW i \in Nat, i # 0
  PROVE  /\ \A x, y \in Strings(p, i, n) : x = y
         /\ \A x \in Strings(p, i, n) : IsString(x) /\ Len(x.items) = n
<1> DEFINE f == StringsFrom(p, n)
           T == {k \in 0 .. n : \A j \in Nat \ {0} :
                   /\ \A x, y \in f[k][j] : x = y
                   /\ \A x \in f[k][j] : IsString(x) /\ Len(x.items) = k}
<1>1. Strings(p, i, n) = f[n][i] BY DEF Strings, StringsFrom, StringsAt
<1>2. \A k \in 0 .. n : f[k] = StringsAt(f, p, k) BY StringsExist
<1> HIDE DEF f
<1>3. ASSUME NEW k \in 0 .. n, \A m \in 0 .. k - 1 : m \in T PROVE k \in T
  <2> SUFFICES ASSUME NEW j \in Nat \ {0}
               PROVE  /\ \A x, y \in f[k][j] : x = y
                      /\ \A x \in f[k][j] : IsString(x) /\ Len(x.items) = k
    OBVIOUS
  <2>1. CASE k = 0
    <3>1. f[k][j] = {[items |-> << >>, next |-> j]} BY <1>2, <2>1 DEF StringsAt
    <3>2. << >> \in Seq(Seq(Nat)) /\ Len(<< >>) = 0 OBVIOUS
    <3> QED BY <2>1, <3>1, <3>2 DEF IsString
  <2>2. CASE k # 0 /\ ~(j > Len(p)) /\ ~(j + p[j] > Len(p))
    <3> DEFINE head == SubSeq(p, j + 1, j + p[j])
               l == j + 1 + p[j]
    <3>1. f[k][j] = {[s EXCEPT !.items = << head >> \o @] : s \in f[k - 1][l]}
      BY <1>2, <2>2 DEF StringsAt
    <3>2. j \in 1 .. Len(p) /\ p[j] \in Nat BY <2>2
    <3>3. l \in Nat \ {0} BY <3>2
    <3>4. head \in Seq(Nat)
      <4>1. \A m \in j + 1 .. j + p[j] : p[m] \in Nat BY <2>2, <3>2
      <4>2. j + 1 \in Int /\ j + p[j] \in Int BY <3>2
      <4> QED BY <4>1, <4>2, SubSeqProperties
    <3>5. k - 1 \in T BY <1>3, <2>2
    <3>6. /\ \A x, y \in f[k - 1][l] : x = y
          /\ \A x \in f[k - 1][l] : IsString(x) /\ Len(x.items) = k - 1
      BY <3>3, <3>5
    <3> HIDE DEF head, l, T
    <3>7. ASSUME NEW s \in f[k - 1][l]
          PROVE  LET x == [s EXCEPT !.items = << head >> \o @] IN IsString(x) /\ Len(x.items) = k
      <4>1. /\ s = [items |-> s.items, next |-> s.next] /\ s.items \in Seq(Seq(Nat))
            /\ s.next \in Nat /\ Len(s.items) = k - 1
        BY <3>6 DEF IsString
      <4>2. << head >> \in Seq(Seq(Nat)) /\ Len(<< head >>) = 1 BY <3>4
      <4> DEFINE ss == << head >> \o s.items
      <4>3. ss \in Seq(Seq(Nat)) /\ Len(ss) = k
        <5>1. ss \in Seq(Seq(Nat)) /\ Len(ss) = 1 + (k - 1) BY <4>1, <4>2, ConcatProperties
        <5> QED BY <5>1
      <4>4. [s EXCEPT !.items = << head >> \o @] = [items |-> ss, next |-> s.next]
        <5> DEFINE it == s.items
                   nx == s.next
        <5>1. s = [items |-> it, next |-> nx] BY <4>1
        <5>2. [s EXCEPT !.items = << head >> \o @] = [s EXCEPT !.items = ss] OBVIOUS
        <5> HIDE DEF ss, it, nx
        <5>3. [s EXCEPT !.items = ss] = [items |-> ss, next |-> nx] BY <5>1
        <5> QED BY <5>2, <5>3 DEF nx
      <4> HIDE DEF ss
      <4> QED BY <4>1, <4>3, <4>4 DEF IsString
    <3> QED BY <3>1, <3>6, <3>7
  <2>3. CASE k # 0 /\ (j > Len(p) \/ j + p[j] > Len(p))
    <3>1. f[k][j] = {} BY <1>2, <2>3 DEF StringsAt
    <3> QED BY <3>1
  <2> QED BY <2>1, <2>2, <2>3
<1>4. n \in T
  <2> HIDE DEF T
  <2>1. n \in 0 .. n OBVIOUS
  <2> QED BY <1>3, <2>1, FromBelow
<1> QED BY <1>1, <1>4

-----------------------------------------------------------------------------
(***************************************************************************)
(* Decoded values: what is compared is what a payload says.                *)
(***************************************************************************)

LEMMA ShapesAre ==
  ASSUME NEW c \in Differs
  PROVE  /\ c.shape \in {"fixed", "counted", "names", "text", "version", "flags", "packed"}
         /\ c.name \notin {"LIvi", "LIfp", "LIbd"}
         /\ Lookup(Differs, c.name) = c
         /\ c # Opaque
<1>1. /\ c.shape \in {"fixed", "counted", "names", "text", "version", "flags", "packed"}
      /\ c.name \notin {"LIvi", "LIfp", "LIbd"}
  BY DEF Differs, MUID, CONP, CPC2, LIBN, FPEX, BDEX, STRG, VERS, LVSR, VCTP, Fixed
<1>2. \A d \in Differs : d.name = c.name => d = c
  BY DEF Differs, MUID, CONP, CPC2, LIBN, FPEX, BDEX, STRG, VERS, LVSR, VCTP, Fixed
<1>3. Lookup(Differs, c.name) = c BY <1>2 DEF Lookup
<1>4. c # Opaque
  <2>1. Opaque.shape = "opaque" BY DEF Opaque
  <2> QED BY <1>1, <2>1
<1> QED BY <1>1, <1>3, <1>4

LEMMA DecodeOf ==
  ASSUME NEW c \in Differs, NEW p
  PROVE  /\ c.shape = "fixed" => Decode(c, p) = DecodeFixed(c, p)
         /\ c.shape = "counted" => Decode(c, p) = DecodeCounted(p)
         /\ c.shape = "names" => Decode(c, p) = DecodeNames(p)
         /\ c.shape = "text" => Decode(c, p) = DecodeText(p)
         /\ c.shape = "version" => Decode(c, p) = DecodeVersion(p)
         /\ c.shape = "flags" => Decode(c, p) = DecodeFlags(p)
         /\ c.shape = "packed" => Decode(c, p) = DecodePacked(p)
BY ShapesAre DEF Decode

\* What Decode may return.
IsValue(c, v) ==
  /\ c.shape = "fixed" => v = [name |-> c.name, raw |-> v.raw]
  /\ c.shape = "counted" => v = [items |-> v.items] /\ v.items \in Seq(Nat)
  /\ c.shape = "names" => v = [items |-> v.items] /\ v.items \in Seq(Seq(Nat))
  /\ c.shape = "text" => v = [text |-> v.text]
  /\ c.shape = "version" =>
       v = [minor |-> v.minor, patch |-> v.patch, stage |-> v.stage, text |-> v.text]
  /\ c.shape = "flags" => v = [version |-> v.version, raw |-> v.raw]
  /\ c.shape = "packed" =>
       v = [declared |-> v.declared, inflated |-> v.inflated, compressed |-> v.compressed]

\* There is one value at most in a payload.
LEMMA DecodeUnique ==
  ASSUME NEW c \in Differs, NEW p \in Seq(Nat)
  PROVE  /\ \A v, w \in Decode(c, p) : v = w
         /\ \A v \in Decode(c, p) : IsValue(c, v)
<1>1. CASE c.shape = "fixed"
  <2>1. Decode(c, p) \subseteq {[name |-> c.name, raw |-> p]} BY <1>1, DecodeOf DEF DecodeFixed
  <2> QED BY <1>1, <2>1 DEF IsValue
<1>2. CASE c.shape = "counted"
  <2>1. Decode(c, p) = IF p = << >> THEN {} ELSE IF Len(p) # 1 + p[1] THEN {} ELSE {[items |-> Rest(p, 1)]}
    BY <1>2, DecodeOf DEF DecodeCounted
  <2>2. Rest(p, 1) \in Seq(Nat) BY DEF Rest
  <2> QED BY <1>2, <2>1, <2>2 DEF IsValue
<1>3. CASE c.shape = "names"
  <2>1. Decode(c, p) = IF p = << >> THEN {}
                       ELSE {[items |-> s.items] :
                               s \in {r \in Strings(p, 2, p[1]) : r.next = Len(p) + 1}}
    BY <1>3, DecodeOf DEF DecodeNames
  <2>2. CASE p = << >> BY <2>1, <2>2
  <2>3. CASE p # << >>
    <3>1. p[1] \in Nat BY <2>3
    <3>2. /\ \A x, y \in Strings(p, 2, p[1]) : x = y
          /\ \A x \in Strings(p, 2, p[1]) : IsString(x)
      BY <3>1, StringsUnique
    <3> QED BY <1>3, <2>1, <2>3, <3>2 DEF IsValue, IsString
  <2> QED BY <2>2, <2>3
<1>4. CASE c.shape = "text"
  <2>1. Decode(c, p) = {[text |-> s.items[1]] : s \in Strings(p, 1, 1)}
    BY <1>4, DecodeOf DEF DecodeText
  <2>2. \A x, y \in Strings(p, 1, 1) : x = y BY StringsUnique
  <2> QED BY <1>4, <2>1, <2>2 DEF IsValue
<1>5. CASE c.shape = "version"
  <2>1. Decode(c, p) \subseteq
          {[minor |-> p[1] \div Nibble, patch |-> p[1] % Nibble, stage |-> p[2], text |-> s.items[1]] :
             s \in Strings(p, VersionHead + 1, 1)}
    BY <1>5, DecodeOf DEF DecodeVersion
  <2>2. \A x, y \in Strings(p, VersionHead + 1, 1) : x = y BY StringsUnique DEF VersionHead
  <2> QED BY <1>5, <2>1, <2>2 DEF IsValue
<1>6. CASE c.shape = "flags"
  <2>1. Decode(c, p) \subseteq {[version |-> p[1], raw |-> Rest(p, 1)]}
    BY <1>6, DecodeOf DEF DecodeFlags
  <2> QED BY <1>6, <2>1 DEF IsValue
<1>7. CASE c.shape = "packed"
  <2>1. Decode(c, p) \subseteq
          {[declared |-> p[1], inflated |-> x, compressed |-> Rest(p, 1)] : x \in Inflate(Rest(p, 1))}
    BY <1>7, DecodeOf DEF DecodePacked
  <2>2. \A x, y \in Inflate(Rest(p, 1)) : x = y BY DEF Inflate
  <2> QED BY <1>7, <2>1, <2>2 DEF IsValue
<1> QED BY <1>1, <1>2, <1>3, <1>4, <1>5, <1>6, <1>7, ShapesAre

\* Two values that are both there are compared field by field and item by item.
SameFields(c, v, w) ==
  /\ \A n \in DOMAIN Fields(c, v) : Fields(c, v)[n] = Fields(c, w)[n]
  /\ List(c, v) = List(c, w)

LEMMA ValueItemsNone ==
  ASSUME NEW c, NEW at, NEW v, NEW w, NEW X, List(c, v) \in Seq(X), List(c, w) \in Seq(X)
  PROVE  ValueItems(c, at, v, w) = {} <=> SameFields(c, v, w)
<1> DEFINE old == List(c, v)
           new == List(c, w)
           Here(l, i) == IF i \in DOMAIN l THEN {l[i]} ELSE {}
           F == UNION {Changed("decoded", [at EXCEPT !.field = n], Fields(c, v)[n], Fields(c, w)[n]) :
                         n \in DOMAIN Fields(c, v)}
           I == {i \in DOMAIN old \cup DOMAIN new : Here(old, i) # Here(new, i)}
           L == {Item("decoded", [at EXCEPT !.place = i], Here(old, i), Here(new, i)) : i \in I}
<1>1. ValueItems(c, at, v, w) = F \cup L BY DEF ValueItems
<1>2. F = {} <=> \A n \in DOMAIN Fields(c, v) : Fields(c, v)[n] = Fields(c, w)[n]
  <2>1. F = {} <=> \A n \in DOMAIN Fields(c, v) :
          Changed("decoded", [at EXCEPT !.field = n], Fields(c, v)[n], Fields(c, w)[n]) = {}
    OBVIOUS
  <2>2. \A n : Changed("decoded", [at EXCEPT !.field = n], Fields(c, v)[n], Fields(c, w)[n]) = {}
                 <=> Fields(c, v)[n] = Fields(c, w)[n]
    BY ChangedIs
  <2> HIDE DEF F
  <2> QED BY <2>1, <2>2
<1>3. L = {} <=> I = {} OBVIOUS
<1>4. I = {} <=> old = new
  <2>1. old = new => I = {} OBVIOUS
  <2>2. ASSUME I = {} PROVE old = new
    <3>1. /\ Len(old) \in Nat /\ DOMAIN old = 1 .. Len(old)
          /\ Len(new) \in Nat /\ DOMAIN new = 1 .. Len(new)
      BY LenProperties
    <3> HIDE DEF old, new
    <3>2. \A i \in DOMAIN old \cup DOMAIN new : Here(old, i) = Here(new, i) BY <2>2
    <3>3. \A i \in DOMAIN old \cup DOMAIN new :
            i \in DOMAIN old /\ i \in DOMAIN new /\ old[i] = new[i]
      BY <3>2
    <3>4. Len(old) = Len(new)
      <4>1. \A i : i \in 1 .. Len(old) <=> i \in 1 .. Len(new) BY <3>1, <3>3
      <4> HIDE DEF Here, F, I, L
      <4>2. \A m, n \in Nat : (\A i : i \in 1 .. m <=> i \in 1 .. n) => m = n
        <5> SUFFICES ASSUME NEW m \in Nat, NEW n \in Nat, \A i : i \in 1 .. m <=> i \in 1 .. n
                     PROVE  m = n
          OBVIOUS
        <5>1. m # 0 => m \in 1 .. n OBVIOUS
        <5>2. n # 0 => n \in 1 .. m OBVIOUS
        <5> QED BY <5>1, <5>2
      <4> QED BY <3>1, <4>1, <4>2
    <3>5. old \in Seq(X) /\ new \in Seq(X) BY DEF old, new
    <3> QED BY <3>1, <3>3, <3>4, <3>5, SeqEqual
  <2> QED BY <2>1, <2>2
<1> HIDE DEF F, L, I
<1> QED BY <1>1, <1>2, <1>3, <1>4 DEF SameFields

LEMMA NoValueItems ==
  ASSUME NEW c \in Differs, NEW at, NEW v, NEW w, IsValue(c, v), IsValue(c, w)
  PROVE  ValueItems(c, at, v, w) = {} <=> Bare(c, v) = Bare(c, w)
<1> DEFINE L(X) == List(c, v) \in Seq(X) /\ List(c, w) \in Seq(X)
<1>0. \A X : L(X) => (ValueItems(c, at, v, w) = {} <=> SameFields(c, v, w))
  BY ValueItemsNone
<1> HIDE DEF L
<1>1. CASE c.shape = "fixed"
  <2>1. /\ List(c, v) = << >> /\ List(c, w) = << >>
        /\ Fields(c, v) = [raw |-> v.raw] /\ Fields(c, w) = [raw |-> w.raw]
    BY <1>1 DEF List, Fields, Scalars
  <2>2. << >> \in Seq(Nat) OBVIOUS
  <2>3. Bare(c, v) = v /\ Bare(c, w) = w BY <1>1 DEF Bare
  <2>4. v = w <=> v.raw = w.raw BY <1>1 DEF IsValue
  <2>5. ValueItems(c, at, v, w) = {} <=> SameFields(c, v, w)
    <3>1. L(Nat) BY <2>1, <2>2 DEF L
    <3> QED BY <1>0, <3>1
  <2> QED BY <2>1, <2>3, <2>4, <2>5 DEF SameFields
<1>2. CASE c.shape = "counted"
  <2>1. /\ List(c, v) = [i \in DOMAIN v.items |-> << v.items[i] >>]
        /\ List(c, w) = [i \in DOMAIN w.items |-> << w.items[i] >>]
        /\ Fields(c, v) = [none |-> << >>] /\ Fields(c, w) = [none |-> << >>]
    BY <1>2 DEF List, Fields, Scalars
  <2>2. v.items \in Seq(Nat) /\ w.items \in Seq(Nat) /\ (v = w <=> v.items = w.items)
    BY <1>2 DEF IsValue
  <2>3. List(c, v) \in Seq(Seq(Nat)) /\ List(c, w) \in Seq(Seq(Nat))
    <3>1. ASSUME NEW x \in Seq(Nat) PROVE [i \in DOMAIN x |-> << x[i] >>] \in Seq(Seq(Nat))
      <4>1. Len(x) \in Nat /\ DOMAIN x = 1 .. Len(x) /\ \A i \in DOMAIN x : << x[i] >> \in Seq(Nat)
        OBVIOUS
      <4>2. [i \in DOMAIN x |-> << x[i] >>] \in [1 .. Len(x) -> Seq(Nat)] BY <4>1
      <4> QED BY <4>1, <4>2, SeqDef
    <3> QED BY <2>1, <2>2, <3>1
  <2>4. Bare(c, v) = v /\ Bare(c, w) = w BY <1>2 DEF Bare
  <2>5. ValueItems(c, at, v, w) = {} <=> SameFields(c, v, w)
    <3>1. L(Seq(Nat)) BY <2>3 DEF L
    <3> QED BY <1>0, <3>1
  <2>6. List(c, v) = List(c, w) <=> v.items = w.items
    <3> DEFINE x == v.items
               y == w.items
    <3>1. x \in Seq(Nat) /\ y \in Seq(Nat) BY <2>2
    <3> HIDE DEF x, y
    <3>2. ASSUME [i \in DOMAIN x |-> << x[i] >>] = [i \in DOMAIN y |-> << y[i] >>] PROVE x = y
      <4>1. DOMAIN x = DOMAIN y BY <3>2
      <4>2. \A i \in DOMAIN x : << x[i] >> = << y[i] >> BY <3>2
      <4>3. \A i \in DOMAIN x : x[i] = y[i] BY <4>2
      <4> QED BY <3>1, <4>1, <4>3
    <3> QED BY <2>1, <3>2 DEF x, y
  <2> QED BY <2>1, <2>2, <2>4, <2>5, <2>6 DEF SameFields
<1>3. CASE c.shape = "names"
  <2>1. /\ List(c, v) = v.items /\ List(c, w) = w.items
        /\ Fields(c, v) = [none |-> << >>] /\ Fields(c, w) = [none |-> << >>]
    BY <1>3 DEF List, Fields, Scalars
  <2>2. v.items \in Seq(Seq(Nat)) /\ w.items \in Seq(Seq(Nat)) /\ (v = w <=> v.items = w.items)
    BY <1>3 DEF IsValue
  <2>3. Bare(c, v) = v /\ Bare(c, w) = w BY <1>3 DEF Bare
  <2>4. ValueItems(c, at, v, w) = {} <=> SameFields(c, v, w)
    <3>1. L(Seq(Nat)) BY <2>1, <2>2 DEF L
    <3> QED BY <1>0, <3>1
  <2> QED BY <2>1, <2>2, <2>3, <2>4 DEF SameFields
<1>4. CASE c.shape = "text"
  <2>1. /\ List(c, v) = << >> /\ List(c, w) = << >>
        /\ Fields(c, v) = [text |-> v.text] /\ Fields(c, w) = [text |-> w.text]
    BY <1>4 DEF List, Fields, Scalars
  <2>2. << >> \in Seq(Nat) OBVIOUS
  <2>3. Bare(c, v) = v /\ Bare(c, w) = w BY <1>4 DEF Bare
  <2>4. v = w <=> v.text = w.text BY <1>4 DEF IsValue
  <2>5. ValueItems(c, at, v, w) = {} <=> SameFields(c, v, w)
    <3>1. L(Nat) BY <2>1, <2>2 DEF L
    <3> QED BY <1>0, <3>1
  <2> QED BY <2>1, <2>3, <2>4, <2>5 DEF SameFields
<1>5. CASE c.shape = "version"
  <2>1. /\ List(c, v) = << >> /\ List(c, w) = << >>
        /\ Fields(c, v) = [minor |-> << v.minor >>, patch |-> << v.patch >>,
                           stage |-> << v.stage >>, text |-> v.text]
        /\ Fields(c, w) = [minor |-> << w.minor >>, patch |-> << w.patch >>,
                           stage |-> << w.stage >>, text |-> w.text]
    BY <1>5 DEF List, Fields, Scalars
  <2>2. << >> \in Seq(Nat) OBVIOUS
  <2>3. Bare(c, v) = v /\ Bare(c, w) = w BY <1>5 DEF Bare
  <2>4. v = w <=> /\ v.minor = w.minor /\ v.patch = w.patch
                  /\ v.stage = w.stage /\ v.text = w.text
    BY <1>5 DEF IsValue
  <2>5. ValueItems(c, at, v, w) = {} <=> SameFields(c, v, w)
    <3>1. L(Nat) BY <2>1, <2>2 DEF L
    <3> QED BY <1>0, <3>1
  <2>6. (\A n \in DOMAIN Fields(c, v) : Fields(c, v)[n] = Fields(c, w)[n]) <=>
          /\ << v.minor >> = << w.minor >> /\ << v.patch >> = << w.patch >>
          /\ << v.stage >> = << w.stage >> /\ v.text = w.text
    BY <2>1
  <2>7. \A x, y : << x >> = << y >> <=> x = y OBVIOUS
  <2> QED BY <2>1, <2>3, <2>4, <2>5, <2>6, <2>7 DEF SameFields
<1>6. CASE c.shape = "flags"
  <2>1. /\ List(c, v) = << >> /\ List(c, w) = << >>
        /\ Fields(c, v) = [version |-> << v.version >>, raw |-> v.raw]
        /\ Fields(c, w) = [version |-> << w.version >>, raw |-> w.raw]
    BY <1>6 DEF List, Fields, Scalars
  <2>2. << >> \in Seq(Nat) OBVIOUS
  <2>3. Bare(c, v) = v /\ Bare(c, w) = w BY <1>6 DEF Bare
  <2>4. v = w <=> v.version = w.version /\ v.raw = w.raw BY <1>6 DEF IsValue
  <2>5. ValueItems(c, at, v, w) = {} <=> SameFields(c, v, w)
    <3>1. L(Nat) BY <2>1, <2>2 DEF L
    <3> QED BY <1>0, <3>1
  <2>6. (\A n \in DOMAIN Fields(c, v) : Fields(c, v)[n] = Fields(c, w)[n]) <=>
          << v.version >> = << w.version >> /\ v.raw = w.raw
    BY <2>1
  <2>7. \A x, y : << x >> = << y >> <=> x = y OBVIOUS
  <2> QED BY <2>1, <2>3, <2>4, <2>5, <2>6, <2>7 DEF SameFields
<1>7. CASE c.shape = "packed"
  <2>1. /\ List(c, v) = << >> /\ List(c, w) = << >>
        /\ Fields(c, v) = [declared |-> << v.declared >>, inflated |-> v.inflated]
        /\ Fields(c, w) = [declared |-> << w.declared >>, inflated |-> w.inflated]
    BY <1>7 DEF List, Fields
  <2>2. << >> \in Seq(Nat) OBVIOUS
  <2>3. Bare(c, v) = Bare(c, w) <=> v.declared = w.declared /\ v.inflated = w.inflated
    <3>1. ASSUME NEW x, IsValue(c, x)
          PROVE  Bare(c, x) = [declared |-> x.declared, inflated |-> x.inflated, compressed |-> << >>]
      <4> DEFINE d == x.declared
                 f == x.inflated
                 z == x.compressed
      <4>1. x = [declared |-> d, inflated |-> f, compressed |-> z] BY <1>7, <3>1 DEF IsValue
      <4>2. Bare(c, x) = [x EXCEPT !.compressed = << >>] BY <1>7 DEF Bare
      <4> HIDE DEF d, f, z
      <4>3. Bare(c, x) = [declared |-> d, inflated |-> f, compressed |-> << >>] BY <4>1, <4>2
      <4> QED BY <4>3 DEF d, f
    <3>2. /\ Bare(c, v) = [declared |-> v.declared, inflated |-> v.inflated, compressed |-> << >>]
          /\ Bare(c, w) = [declared |-> w.declared, inflated |-> w.inflated, compressed |-> << >>]
      BY <3>1
    <3> QED BY <3>2
  <2>5. ValueItems(c, at, v, w) = {} <=> SameFields(c, v, w)
    <3>1. L(Nat) BY <2>1, <2>2 DEF L
    <3> QED BY <1>0, <3>1
  <2>6. (\A n \in DOMAIN Fields(c, v) : Fields(c, v)[n] = Fields(c, w)[n]) <=>
          << v.declared >> = << w.declared >> /\ v.inflated = w.inflated
    BY <2>1
  <2>7. \A x, y : << x >> = << y >> <=> x = y OBVIOUS
  <2> QED BY <2>1, <2>3, <2>5, <2>6, <2>7 DEF SameFields
<1> QED BY <1>1, <1>2, <1>3, <1>4, <1>5, <1>6, <1>7, ShapesAre

\* An error has a text.
LEMMA ErrorHasText ==
  ASSUME NEW c \in Differs, NEW p
  PROVE  ErrorText(c, p) # << >>
<1>0. \A x, y, z, u : << x >> # << >> /\ << x, y >> # << >> /\ << x, y, z >> # << >> /\ << x, y, z, u >> # << >>
  OBVIOUS
<1>1. CASE c.shape = "names"
  <2> DEFINE k == Max({n \in 0 .. p[1] : Strings(p, 2, n) # {}})
             next == (CHOOSE s \in Strings(p, 2, k) : TRUE).next
             r == CHOOSE n \in 0 .. Len(p) : \E s \in Strings(p, 2, p[1]) : s.next + n = Len(p) + 1
  <2>1. ErrorText(c, p) =
          IF p = << >> THEN << 0 >>
          ELSE IF Strings(p, 2, p[1]) # {} THEN << 3, r, p[1] >>
          ELSE IF next > Len(p) THEN << 1, k >> ELSE << 2, k, p[next], Len(p) - next >>
    BY <1>1 DEF ErrorText
  <2> HIDE DEF k, next, r
  <2> QED BY <1>0, <2>1
<1>2. CASE c.shape = "packed"
  <2> DEFINE l == Len(CHOOSE x \in Inflate(Rest(p, 1)) : TRUE)
             z == Rest(p, 1)
  <2>1. ErrorText(c, p) = IF p = << >> THEN << 0 >>
                          ELSE IF Inflate(z) # {} THEN << 2, p[1], l >>
                          ELSE IF z = << >> THEN << 1 >>
                          ELSE IF z[1] \in {OwnForm, OtherForm} THEN << 1 >> ELSE << 3 >>
    BY <1>2 DEF ErrorText
  <2> HIDE DEF l, z
  <2> QED BY <1>0, <2>1
<1>3. CASE c.shape = "fixed"
  <2>1. ErrorText(c, p) = << Len(p) >> BY <1>3 DEF ErrorText
  <2> QED BY <1>0, <2>1
<1>4. CASE c.shape = "version"
  <2> DEFINE n == Len(p)
             x == p[VersionHead + 1]
  <2>1. ErrorText(c, p) = IF n < VersionHead + 2 THEN << n >> ELSE << n, x >>
    BY <1>4 DEF ErrorText
  <2> HIDE DEF n, x
  <2> QED BY <1>0, <2>1
<1>5. CASE c.shape \in {"counted", "text", "flags"}
  <2> DEFINE x == IF p = << >> THEN 0 ELSE p[1]
  <2>1. ErrorText(c, p) = << Len(p), x >> BY <1>5 DEF ErrorText
  <2> HIDE DEF x
  <2> QED BY <1>0, <2>1
<1> QED BY <1>1, <1>2, <1>3, <1>4, <1>5, ShapesAre

\* A payload that changes has decoded items exactly if it says something else.
LEMMA DecodedMeaning ==
  ASSUME NEW c \in Differs, NEW i, NEW p \in Seq(Nat), NEW q \in Seq(Nat)
  PROVE  (p # q /\ DecodedItems(c.name, i, p, q) # {}) <=> ~SaysTheSame(c, p, q)
<1> DEFINE at == At(c.name, i, "decoded", Nowhere)
           V == UNION {ValueItems(c, at, v, w) : v \in Decode(c, p), w \in Decode(c, q)}
           R == Changed("decoded", at, Result(c, p), Result(c, q))
<1>1. DecodedItems(c.name, i, p, q) = V \cup R BY ShapesAre DEF DecodedItems
<1>2. p = q => SaysTheSame(c, p, q) BY DEF SaysTheSame
<1>3. R = {} <=> Result(c, p) = Result(c, q) BY ChangedIs
<1>4. /\ ErrorText(c, p) # << >> /\ ErrorText(c, q) # << >> BY ErrorHasText
<1>5. V = {} <=> \A v \in Decode(c, p), w \in Decode(c, q) : Bare(c, v) = Bare(c, w)
  <2>1. V = {} <=> \A v \in Decode(c, p), w \in Decode(c, q) : ValueItems(c, at, v, w) = {}
    OBVIOUS
  <2>2. \A v \in Decode(c, p), w \in Decode(c, q) :
          ValueItems(c, at, v, w) = {} <=> Bare(c, v) = Bare(c, w)
    <3> HIDE DEF at
    <3>1. \A v \in Decode(c, p) : IsValue(c, v) BY DecodeUnique
    <3>2. \A w \in Decode(c, q) : IsValue(c, w) BY DecodeUnique
    <3> QED BY <3>1, <3>2, NoValueItems
  <2> HIDE DEF V, at
  <2> QED BY <2>1, <2>2
<1> HIDE DEF V, R, at
<1>6. /\ \A v, w \in Decode(c, p) : v = w
      /\ \A v, w \in Decode(c, q) : v = w
  BY DecodeUnique
<1>7. CASE Decode(c, p) = {} /\ Decode(c, q) = {}
  <2>1. Result(c, p) = ErrorText(c, p) /\ Result(c, q) = ErrorText(c, q) BY <1>7 DEF Result
  <2>2. SaysTheSame(c, p, q) <=> ErrorText(c, p) = ErrorText(c, q) BY <1>7 DEF SaysTheSame
  <2>3. V = {} BY <1>5, <1>7
  <2> QED BY <1>1, <1>2, <1>3, <2>1, <2>2, <2>3
<1>8. CASE Decode(c, p) # {} /\ Decode(c, q) = {}
  <2>1. Result(c, p) = << >> /\ Result(c, q) = ErrorText(c, q) BY <1>8 DEF Result
  <2>2. ~SaysTheSame(c, p, q) BY <1>8 DEF SaysTheSame
  <2> QED BY <1>1, <1>2, <1>3, <1>4, <2>1, <2>2
<1>9. CASE Decode(c, p) = {} /\ Decode(c, q) # {}
  <2>1. Result(c, p) = ErrorText(c, p) /\ Result(c, q) = << >> BY <1>9 DEF Result
  <2>2. ~SaysTheSame(c, p, q) BY <1>9 DEF SaysTheSame
  <2> QED BY <1>1, <1>2, <1>3, <1>4, <2>1, <2>2
<1>10. CASE Decode(c, p) # {} /\ Decode(c, q) # {}
  <2>1. Result(c, p) = << >> /\ Result(c, q) = << >> BY <1>10 DEF Result
  <2>2. PICK v \in Decode(c, p), w \in Decode(c, q) : TRUE BY <1>10
  <2>3. Decode(c, p) = {v} /\ Decode(c, q) = {w} BY <1>6, <2>2
  <2>4. SaysTheSame(c, p, q) <=> Bare(c, v) = Bare(c, w)
    <3>1. {Bare(c, x) : x \in {v}} = {Bare(c, v)} /\ {Bare(c, x) : x \in {w}} = {Bare(c, w)}
      OBVIOUS
    <3>2. SaysTheSame(c, p, q) <=> {Bare(c, v)} = {Bare(c, w)} BY <2>3, <3>1 DEF SaysTheSame
    <3> QED BY <3>2
  <2>5. V = {} <=> Bare(c, v) = Bare(c, w) BY <1>5, <2>3
  <2> QED BY <1>1, <1>2, <1>3, <2>1, <2>4, <2>5
<1> QED BY <1>7, <1>8, <1>9, <1>10

\* The decoded items of a section that both files show.
LEMMA DecodedItemAt ==
  ASSUME NEW x \in AllFiles, NEW y \in AllFiles, NEW type, NEW i,
         HasBlock(x, type), HasBlock(y, type),
         HasSection(TheBlock(x, type).sections, i), HasSection(TheBlock(y, type).sections, i)
  PROVE  LET p == TheSection(TheBlock(x, type).sections, i).payload
             q == TheSection(TheBlock(y, type).sections, i).payload
         IN (\E d \in DiffItems(x, y) : d.kind = "decoded" /\ d.at.type = type /\ d.at.index = i)
              <=> p # q /\ DecodedItems(type, i, p, q) # {}
<1> DEFINE old == TheBlock(x, type).sections
           new == TheBlock(y, type).sections
           s == TheSection(old, i)
           t == TheSection(new, i)
<1>1. old \in Seq(AllSections) /\ new \in Seq(AllSections) BY BlockIs
<1>2. HasSection(old, i) /\ HasSection(new, i) OBVIOUS
<1>3. \A d : d.at.type = type =>
        (d \in BlockItems(x, y) <=> d \in SectionItems(type, old, new))
  <2> SUFFICES ASSUME NEW d, d.at.type = type
               PROVE  d \in BlockItems(x, y) <=> d \in SectionItems(type, old, new)
    OBVIOUS
  <2>1. d \in BlockItems(x, y) <=>
           \/ /\ HasBlock(x, type) /\ HasBlock(y, type)
              /\ d \in SectionItems(type, TheBlock(x, type).sections, TheBlock(y, type).sections)
           \/ /\ HasBlock(x, type) <=> ~HasBlock(y, type)
              /\ d = LoneBlock(x, y, type)
    BY BlockItemAt
  <2> QED BY <2>1
<1>4. \A d \in HeaderItems(x, y) : d.kind = "header" BY HeaderItemAt
<1>5. \A d : d.kind = "decoded" /\ d.at.type = type =>
               (d \in DiffItems(x, y) <=> d \in SectionItems(type, old, new))
  <2> HIDE DEF old, new
  <2> QED BY <1>3, <1>4 DEF DiffItems
<1> HIDE DEF old, new
<1>6. s.index = i BY <1>1, <1>2, SectionIs
<1>7. \A d : d \in PairItems(type, s, t) /\ d.kind = "decoded" <=>
               s.payload # t.payload /\ d \in DecodedItems(type, i, s.payload, t.payload)
  <2> HIDE DEF s, t
  <2> QED BY <1>6, PairIs
<1>8. \A d : d.kind = "decoded" /\ IsAt(d, type, i) =>
               (d \in SectionItems(type, old, new) <=> d \in PairItems(type, s, t))
  <2>1. \A z : z \in SectionItems(type, old, new) <=>
           \E j : \/ /\ HasSection(old, j) /\ HasSection(new, j)
                     /\ z \in PairItems(type, TheSection(old, j), TheSection(new, j))
                  \/ OneHas(old, new, j) /\ z = LoneSection(type, old, new, j)
    BY <1>1, SectionItemsAre
  <2> SUFFICES ASSUME NEW d, d.kind = "decoded", IsAt(d, type, i)
               PROVE  d \in SectionItems(type, old, new) <=> d \in PairItems(type, s, t)
    OBVIOUS
  <2>2. ASSUME NEW j, HasSection(old, j), HasSection(new, j),
               d \in PairItems(type, TheSection(old, j), TheSection(new, j))
        PROVE  j = i
    <3>1. TheSection(old, j).index = j BY <1>1, <2>2, SectionIs
    <3>2. IsAt(d, type, TheSection(old, j).index) BY <2>2, PairIs
    <3> QED BY <3>1, <3>2 DEF IsAt
  <2>3. \A j : d # LoneSection(type, old, new, j)
    <3>1. \A j : LoneSection(type, old, new, j).kind = "section" BY LoneIs
    <3> QED BY <3>1
  <2> QED BY <1>2, <2>1, <2>2, <2>3
<1>9. \A d \in DecodedItems(type, i, s.payload, t.payload) : d.kind = "decoded" /\ IsAt(d, type, i)
  <2> DEFINE p == s.payload
             q == t.payload
  <2> HIDE DEF p, q
  <2>1. \A d \in DecodedItems(type, i, p, q) : d.kind = "decoded" /\ IsAt(d, type, i)
    BY DecodedPlace
  <2> QED BY <2>1 DEF p, q
<1> HIDE DEF s, t
<1>10. (\E d \in DiffItems(x, y) : d.kind = "decoded" /\ d.at.type = type /\ d.at.index = i)
         <=> s.payload # t.payload /\ DecodedItems(type, i, s.payload, t.payload) # {}
  BY <1>5, <1>7, <1>8, <1>9 DEF IsAt
<1> QED BY <1>10 DEF s, t, old, new

LEMMA DecodedAreMeaning == DiffInv => DecodedItemsAreMeaning
<1> SUFFICES ASSUME a \in AllFiles, b \in AllFiles, NEW c \in Differs, NEW i,
                    NEW x \in Visible(a, c.name, i), NEW y \in Visible(b, c.name, i)
             PROVE  (\E d \in DiffItems(a, b) :
                       d.kind = "decoded" /\ d.at.type = c.name /\ d.at.index = i)
                      <=> ~SaysTheSame(c, x[2], y[2])
  BY DEF DiffInv, DecodedItemsAreMeaning
<1> DEFINE old == TheBlock(a, c.name).sections
           new == TheBlock(b, c.name).sections
<1>1. /\ HasBlock(a, c.name) /\ x \in Seen(old, i)
      /\ HasBlock(b, c.name) /\ y \in Seen(new, i)
  BY VisibleIs
<1>2. old \in Seq(AllSections) /\ new \in Seq(AllSections) BY <1>1, BlockIs
<1>3. /\ HasSection(old, i) /\ HasSection(new, i)
      /\ x[2] = TheSection(old, i).payload /\ y[2] = TheSection(new, i).payload
  <2> HIDE DEF old, new
  <2> QED BY <1>1 DEF Seen
<1>4. x[2] \in Seq(Nat) /\ y[2] \in Seq(Nat)
  <2> HIDE DEF old, new
  <2>1. TheSection(old, i) \in AllSections /\ TheSection(new, i) \in AllSections
    BY <1>2, <1>3, SectionIs
  <2> QED BY <1>3, <2>1 DEF AllSections
<1>5. (\E d \in DiffItems(a, b) : d.kind = "decoded" /\ d.at.type = c.name /\ d.at.index = i)
        <=> x[2] # y[2] /\ DecodedItems(c.name, i, x[2], y[2]) # {}
  BY <1>1, <1>3, DecodedItemAt
<1> DEFINE p == x[2]
           q == y[2]
<1>6. p \in Seq(Nat) /\ q \in Seq(Nat) BY <1>4
<1> HIDE DEF p, q
<1>7. (p # q /\ DecodedItems(c.name, i, p, q) # {}) <=> ~SaysTheSame(c, p, q)
  BY <1>6, DecodedMeaning
<1> QED BY <1>5, <1>7 DEF p, q

\* A payload has decoded items where it says something else, and none where it only
\* stores the same in another way or fails for the same reason, whatever the payload:
\* makeCodecDiffer and diffDecodedValues compare what a reader would compare.
THEOREM DecodedItemsAlwaysMeaning == Spec => []DecodedItemsAreMeaning
<1>1. DiffInv => DecodedItemsAreMeaning BY DecodedAreMeaning
<1> QED BY <1>1, FilesHold, PTL

-----------------------------------------------------------------------------
(***************************************************************************)
(* The sections of a type, joined from all blocks.                         *)
(***************************************************************************)

FlattenAt(f, u, i) == IF i = 1 THEN u[i] ELSE f[i - 1] \o u[i]
Flattens(u) == CHOOSE f : f = [i \in 1 .. Len(u) |-> FlattenAt(f, u, i)]

LEMMA FlattenExists ==
  ASSUME NEW u, Len(u) \in Nat
  PROVE  \A i \in 1 .. Len(u) : Flattens(u)[i] = FlattenAt(Flattens(u), u, i)
<1> DEFINE n == Len(u)
           P(m, f) == f = [i \in 1 .. m |-> FlattenAt(f, u, i)]
           S == {m \in 0 .. n : \E f : P(m, f)}
<1>1. ASSUME NEW m \in 0 .. n, \A k \in 0 .. m - 1 : k \in S PROVE m \in S
  <2>1. PICK f : \A i \in 1 .. m - 1 : f[i] = FlattenAt(f, u, i)
    <3>1. CASE m = 0
      <4>1. 1 .. m - 1 = {} BY <3>1
      <4> QED BY <4>1
    <3>2. CASE m # 0
      <4>1. m - 1 \in 0 .. m - 1 BY <3>2
      <4>2. PICK f : P(m - 1, f) BY <1>1, <4>1
      <4> HIDE DEF S
      <4> QED BY <4>2
    <3> QED BY <3>1, <3>2
  <2> DEFINE g == [i \in 1 .. m |-> IF i = m THEN FlattenAt(f, u, m) ELSE f[i]]
  <2>2. /\ m # 0 => g[m] = FlattenAt(f, u, m)
        /\ \A i \in 1 .. m - 1 : g[i] = f[i]
    OBVIOUS
  <2>3. g = [i \in 1 .. m |-> g[i]] OBVIOUS
  <2> HIDE DEF g, S
  <2>4. ASSUME NEW i \in 1 .. m PROVE g[i] = FlattenAt(g, u, i)
    <3>1. i = 1 \/ i - 1 \in 1 .. m - 1 OBVIOUS
    <3>2. FlattenAt(g, u, i) = FlattenAt(f, u, i) BY <2>2, <3>1 DEF FlattenAt
    <3>3. i = m \/ i \in 1 .. m - 1 OBVIOUS
    <3> QED BY <2>1, <2>2, <3>2, <3>3
  <2>5. P(m, g) BY <2>3, <2>4
  <2> HIDE DEF P
  <2> QED BY <2>5 DEF S
<1>2. n \in S
  <2>1. n \in Nat /\ n \in 0 .. n OBVIOUS
  <2> HIDE DEF S, n
  <2> QED BY <1>1, <2>1, FromBelow
<1>3. P(n, Flattens(u)) BY <1>2 DEF Flattens
<1> QED BY <1>3

\* Where at most one of several lists has anything in it, joining them gives that
\* list; and the result is at least as long as any two of them.
LEMMA FlattenSparse ==
  ASSUME NEW X, NEW u \in Seq(Seq(X))
  PROVE  /\ FlattenSeq(u) \in Seq(X)
         /\ \A j, k \in 1 .. Len(u) : j # k => Len(u[j]) + Len(u[k]) <= Len(FlattenSeq(u))
         /\ \A k \in 1 .. Len(u) : (\A j \in 1 .. Len(u) : j = k \/ u[j] = << >>)
                                     => FlattenSeq(u) = u[k]
         /\ (\A j \in 1 .. Len(u) : u[j] = << >>) => FlattenSeq(u) = << >>
<1> DEFINE n == Len(u)
           G == Flattens(u)
           T == {i \in 0 .. n : i # 0 =>
                   /\ G[i] \in Seq(X)
                   /\ \A k \in 1 .. i : Len(u[k]) <= Len(G[i])
                   /\ \A j, k \in 1 .. i : j < k => Len(u[j]) + Len(u[k]) <= Len(G[i])
                   /\ \A k \in 1 .. i : (\A j \in 1 .. i : j = k \/ u[j] = << >>) => G[i] = u[k]
                   /\ (\A j \in 1 .. i : u[j] = << >>) => G[i] = << >>}
<1>1. n \in Nat /\ \A i \in 1 .. n : u[i] \in Seq(X) /\ Len(u[i]) \in Nat
  BY LenProperties, ElementOfSeq
<1>2. FlattenSeq(u) = IF n = 0 THEN u ELSE G[n] BY DEF FlattenSeq, Flattens, FlattenAt
<1>3. \A i \in 1 .. n : G[i] = FlattenAt(G, u, i) BY <1>1, FlattenExists
<1> HIDE DEF n, G
<1>4. ASSUME NEW i \in 0 .. n, \A m \in 0 .. i - 1 : m \in T PROVE i \in T
  <2>1. CASE i = 0 BY <2>1
  <2>2. CASE i = 1
    <3>1. 1 \in 1 .. n /\ G[1] = u[1] /\ u[1] \in Seq(X) BY <1>1, <1>3, <2>2 DEF FlattenAt
    <3> DEFINE z == u[1]
    <3>2. G[i] = z /\ z \in Seq(X) /\ Len(z) \in Nat /\ \A k \in 1 .. i : u[k] = z
      BY <1>1, <2>2, <3>1
    <3>3. ~\E j, k \in 1 .. i : j < k BY <2>2
    <3>4. \A k \in 1 .. i : Len(u[k]) <= Len(G[i]) BY <3>2
    <3>5. (\A j \in 1 .. i : u[j] = << >>) => G[i] = << >> BY <2>2, <3>2
    <3> HIDE DEF z
    <3> QED BY <2>2, <3>2, <3>3, <3>4, <3>5
  <2>3. CASE i > 1
    <3>1. i - 1 \in 0 .. i - 1 /\ i - 1 # 0 /\ i \in 1 .. n /\ i - 1 \in 1 .. n BY <1>1, <2>3
    <3>2. i - 1 \in T BY <1>4, <3>1
    <3> DEFINE x == G[i - 1]
               y == u[i]
    <3>3. /\ x \in Seq(X)
          /\ \A k \in 1 .. i - 1 : Len(u[k]) <= Len(x)
          /\ \A j, k \in 1 .. i - 1 : j < k => Len(u[j]) + Len(u[k]) <= Len(x)
          /\ \A k \in 1 .. i - 1 : (\A j \in 1 .. i - 1 : j = k \/ u[j] = << >>) => x = u[k]
          /\ (\A j \in 1 .. i - 1 : u[j] = << >>) => x = << >>
      BY <3>1, <3>2
    <3>4. G[i] = x \o y
      <4>1. i # 1 BY <2>3
      <4>2. G[i] = FlattenAt(G, u, i) BY <1>3, <3>1
      <4> HIDE DEF T
      <4> QED BY <4>1, <4>2 DEF FlattenAt
    <3>5. y \in Seq(X) /\ Len(y) \in Nat BY <1>1, <3>1
    <3> HIDE DEF x, T
    <3>6. /\ G[i] \in Seq(X) /\ Len(G[i]) = Len(x) + Len(y) /\ Len(x) \in Nat
      BY <3>3, <3>4, <3>5, ConcatProperties, LenProperties
    <3>7. \A k \in 1 .. i : Len(u[k]) <= Len(G[i])
      <4> SUFFICES ASSUME NEW k \in 1 .. i PROVE Len(u[k]) <= Len(G[i])
        OBVIOUS
      <4>1. CASE k = i BY <3>5, <3>6, <4>1
      <4>2. CASE k # i
        <5>1. k \in 1 .. i - 1 /\ k \in 1 .. n BY <1>1, <3>1, <4>2
        <5>2. Len(u[k]) <= Len(x) /\ Len(u[k]) \in Nat BY <1>1, <3>3, <5>1
        <5> QED BY <3>5, <3>6, <5>2
      <4> QED BY <4>1, <4>2
    <3>8. \A j, k \in 1 .. i : j < k => Len(u[j]) + Len(u[k]) <= Len(G[i])
      <4> SUFFICES ASSUME NEW j \in 1 .. i, NEW k \in 1 .. i, j < k
                   PROVE  Len(u[j]) + Len(u[k]) <= Len(G[i])
        OBVIOUS
      <4>1. j \in 1 .. i - 1 /\ j \in 1 .. n /\ k \in 1 .. n BY <1>1, <3>1
      <4>2. Len(u[j]) <= Len(x) /\ Len(u[j]) \in Nat /\ Len(u[k]) \in Nat BY <1>1, <3>3, <4>1
      <4>3. CASE k = i BY <3>5, <3>6, <4>2, <4>3
      <4>4. CASE k # i
        <5>1. k \in 1 .. i - 1 BY <4>4
        <5>2. Len(u[j]) + Len(u[k]) <= Len(x) BY <3>3, <4>1, <5>1
        <5> DEFINE lj == Len(u[j])
                   lk == Len(u[k])
                   lx == Len(x)
                   ly == Len(y)
                   lg == Len(G[i])
        <5>3. /\ lj \in Nat /\ lk \in Nat /\ lx \in Nat /\ ly \in Nat
              /\ lj + lk <= lx /\ lg = lx + ly
          BY <3>5, <3>6, <4>2, <5>2
        <5> HIDE DEF lj, lk, lx, ly, lg
        <5>4. lj + lk <= lg BY <5>3
        <5> QED BY <5>4 DEF lj, lk, lg
      <4> QED BY <4>3, <4>4
    <3>9. \A k \in 1 .. i : (\A j \in 1 .. i : j = k \/ u[j] = << >>) => G[i] = u[k]
      <4> SUFFICES ASSUME NEW k \in 1 .. i, \A j \in 1 .. i : j = k \/ u[j] = << >>
                   PROVE  G[i] = u[k]
        OBVIOUS
      <4>1. CASE k = i
        <5>1. \A j \in 1 .. i - 1 : u[j] = << >> BY <4>1
        <5>2. x = << >> BY <3>3, <5>1
        <5> QED BY <3>4, <3>5, <4>1, <5>2, ConcatEmptySeq
      <4>2. CASE k # i
        <5>1. k \in 1 .. i - 1 /\ y = << >> BY <4>2
        <5>2. x = u[k] BY <3>3, <5>1
        <5> HIDE DEF y
        <5> QED BY <3>3, <3>4, <5>1, <5>2, ConcatEmptySeq
      <4> QED BY <4>1, <4>2
    <3>10. (\A j \in 1 .. i : u[j] = << >>) => G[i] = << >>
      <4> SUFFICES ASSUME \A j \in 1 .. i : u[j] = << >> PROVE G[i] = << >>
        OBVIOUS
      <4>1. x = << >> /\ y = << >> BY <3>1, <3>3
      <4> HIDE DEF y
      <4>2. << >> \o << >> = << >> BY <3>5, <4>1, ConcatEmptySeq
      <4> QED BY <3>4, <4>1, <4>2
    <3> QED BY <3>6, <3>7, <3>8, <3>9, <3>10 DEF T
  <2>4. i = 0 \/ i = 1 \/ i > 1 BY <1>1
  <2> HIDE DEF T
  <2> QED BY <2>1, <2>2, <2>3, <2>4
<1>5. n \in T
  <2> HIDE DEF T
  <2>1. n \in 0 .. n BY <1>1
  <2> QED BY <1>1, <1>4, <2>1, FromBelow
<1>6. CASE n = 0
  <2>1. u = << >> BY <1>6, EmptySeq DEF n
  <2>2. << >> \in Seq(X) BY EmptySeq
  <2> QED BY <1>2, <1>6, <2>1, <2>2 DEF n
<1>7. CASE n # 0
  <2> DEFINE F == FlattenSeq(u)
  <2>1. F = G[n] BY <1>2, <1>7
  <2>2. /\ F \in Seq(X)
        /\ \A j, k \in 1 .. n : j < k => Len(u[j]) + Len(u[k]) <= Len(F)
        /\ \A k \in 1 .. n : (\A j \in 1 .. n : j = k \/ u[j] = << >>) => F = u[k]
        /\ (\A j \in 1 .. n : u[j] = << >>) => F = << >>
    BY <1>5, <1>7, <2>1
  <2> HIDE DEF F, T
  <2>3. \A j, k \in 1 .. n : j # k => Len(u[j]) + Len(u[k]) <= Len(F)
    <3> SUFFICES ASSUME NEW j \in 1 .. n, NEW k \in 1 .. n, j # k
                 PROVE  Len(u[j]) + Len(u[k]) <= Len(F)
      OBVIOUS
    <3>1. Len(u[j]) \in Nat /\ Len(u[k]) \in Nat BY <1>1
    <3>2. CASE j < k BY <2>2, <3>2
    <3>3. CASE k < j
      <4>1. Len(u[k]) + Len(u[j]) <= Len(F) BY <2>2, <3>3
      <4> DEFINE lj == Len(u[j])
                 lk == Len(u[k])
                 lf == Len(F)
      <4>2. lj \in Nat /\ lk \in Nat /\ lk + lj <= lf BY <3>1, <4>1
      <4> HIDE DEF lj, lk, lf
      <4>3. lj + lk <= lf BY <4>2
      <4> QED BY <4>3 DEF lj, lk, lf
    <3>4. j < k \/ k < j BY <1>1
    <3> QED BY <3>2, <3>3, <3>4
  <2> QED BY <2>2, <2>3 DEF F, n
<1> QED BY <1>6, <1>7

LEMMA SectionsAre ==
  ASSUME NEW f \in AllFiles, NEW type, Single(f, type)
  PROVE  /\ HasBlock(f, type) => /\ SectionsOf(f, type) = TheBlock(f, type).sections
                                 /\ Len(TheBlock(f, type).sections) = 1
         /\ ~HasBlock(f, type) => SectionsOf(f, type) = << >>
<1> DEFINE u == [k \in DOMAIN f.blocks |->
                   IF f.blocks[k].type = type THEN f.blocks[k].sections ELSE << >>]
           n == Len(f.blocks)
           ks == {k \in DOMAIN f.blocks : f.blocks[k].type = type}
           l == LastOf(ks)
<1>1. n \in Nat /\ DOMAIN f.blocks = 1 .. n BY DEF AllFiles
<1>2. SectionsOf(f, type) = FlattenSeq(u) BY DEF SectionsOf
<1>3. \A k \in 1 .. n : /\ u[k] \in Seq(AllSections) /\ Len(u[k]) \in Nat
                        /\ k \in ks => u[k] = f.blocks[k].sections /\ u[k] # << >>
                        /\ k \notin ks => u[k] = << >>
  <2> SUFFICES ASSUME NEW k \in 1 .. n
               PROVE  /\ u[k] \in Seq(AllSections) /\ Len(u[k]) \in Nat
                      /\ k \in ks => u[k] = f.blocks[k].sections /\ u[k] # << >>
                      /\ k \notin ks => u[k] = << >>
    OBVIOUS
  <2>1. f.blocks[k].sections \in Seq(AllSections) /\ f.blocks[k].sections # << >>
    BY <1>1, SectionsOfFile
  <2>2. /\ k \in ks => u[k] = f.blocks[k].sections
        /\ k \notin ks => u[k] = << >>
    BY <1>1
  <2>3. << >> \in Seq(AllSections) BY EmptySeq
  <2> HIDE DEF u, ks
  <2>4. u[k] \in Seq(AllSections) BY <2>1, <2>2, <2>3
  <2> QED BY <2>1, <2>2, <2>4, LenProperties
<1>4. u \in Seq(Seq(AllSections)) /\ Len(u) = n
  <2>1. DOMAIN u = 1 .. n BY <1>1
  <2>2. u = [k \in 1 .. n |-> u[k]] BY <1>1
  <2> HIDE DEF u, n, ks
  <2>3. u \in [1 .. n -> Seq(AllSections)] BY <1>3, <2>2
  <2> QED BY <1>1, <2>3, SeqDef, LenProperties
<1>5. Len(FlattenSeq(u)) <= 1 BY <1>2 DEF Single
<1>6. HasBlock(f, type) <=> ks # {} BY DEF HasBlock
<1>7. TheBlock(f, type) = f.blocks[l] BY DEF TheBlock
<1> HIDE DEF u, n
<1>8. /\ FlattenSeq(u) \in Seq(AllSections)
      /\ \A j, k \in 1 .. n : j # k => Len(u[j]) + Len(u[k]) <= Len(FlattenSeq(u))
      /\ \A k \in 1 .. n : (\A j \in 1 .. n : j = k \/ u[j] = << >>) => FlattenSeq(u) = u[k]
      /\ (\A j \in 1 .. n : u[j] = << >>) => FlattenSeq(u) = << >>
  <2>1. /\ FlattenSeq(u) \in Seq(AllSections)
        /\ \A j, k \in 1 .. Len(u) : j # k => Len(u[j]) + Len(u[k]) <= Len(FlattenSeq(u))
        /\ \A k \in 1 .. Len(u) : (\A j \in 1 .. Len(u) : j = k \/ u[j] = << >>)
                                     => FlattenSeq(u) = u[k]
        /\ (\A j \in 1 .. Len(u) : u[j] = << >>) => FlattenSeq(u) = << >>
    BY <1>4, FlattenSparse
  <2> QED BY <1>4, <2>1
<1>9. CASE ks # {}
  <2>1. l \in ks /\ l \in 1 .. n
    <3>1. ks \in SUBSET (1 .. n) BY <1>1
    <3> HIDE DEF ks
    <3> QED BY <1>1, <1>9, <3>1, LastExists
  <2> HIDE DEF ks, l
  <2>2. \A k \in 1 .. n : u[k] # << >> => Len(u[k]) >= 1 BY <1>3, EmptySeq
  <2>3. ASSUME NEW j \in 1 .. n, j # l, u[j] # << >> PROVE FALSE
    <3> DEFINE lj == Len(u[j])
               ll == Len(u[l])
               lf == Len(FlattenSeq(u))
    <3>1. lj + ll <= lf BY <1>8, <2>1, <2>3
    <3>2. lj \in Nat /\ ll \in Nat /\ lj >= 1 /\ ll >= 1 BY <1>3, <2>1, <2>2, <2>3
    <3>3. lf \in Nat BY <1>8, LenProperties
    <3> HIDE DEF lj, ll
    <3> QED BY <1>5, <3>1, <3>2, <3>3
  <2>4. FlattenSeq(u) = u[l] BY <1>8, <2>1, <2>3
  <2>5. u[l] = f.blocks[l].sections /\ u[l] # << >> /\ Len(u[l]) \in Nat BY <1>3, <2>1
  <2>6. Len(u[l]) >= 1 /\ Len(u[l]) <= 1 BY <1>5, <2>1, <2>2, <2>4, <2>5
  <2> DEFINE ll == Len(u[l])
  <2>7. ll = 1
    <3>1. ll \in Nat /\ ll >= 1 /\ ll <= 1 BY <2>5, <2>6
    <3> HIDE DEF ll
    <3> QED BY <3>1
  <2> QED BY <1>2, <1>6, <1>7, <1>9, <2>4, <2>5, <2>7
<1>10. CASE ks = {}
  <2>1. \A j \in 1 .. n : u[j] = << >> BY <1>3, <1>10
  <2> QED BY <1>2, <1>6, <1>8, <1>10, <2>1
<1> QED BY <1>9, <1>10

-----------------------------------------------------------------------------
(***************************************************************************)
(* The model changes only where the diff has an item.                      *)
(***************************************************************************)

Viewed == {STRG, VCTP, LVSR, CONP, VERS}

\* Where the only section of a type is.
LEMMA OnlySection ==
  ASSUME NEW ss \in Seq(AllSections), Len(ss) = 1
  PROVE  /\ \A i : HasSection(ss, i) <=> i = ss[1].index
         /\ TheSection(ss, ss[1].index) = ss[1]
         /\ ss # << >>
         /\ ss[1] \in AllSections
         /\ Range(ss) = {ss[1]}
<1>1. DOMAIN ss = {1} OBVIOUS
<1> DEFINE is == {j \in DOMAIN ss : ss[j].index = ss[1].index}
<1>2. is = {1} BY <1>1
<1> HIDE DEF is
<1>3. LastOf(is) = 1 BY <1>2 DEF LastOf
<1>4. TheSection(ss, ss[1].index) = ss[1] BY <1>3 DEF TheSection, is
<1>5. \A i : HasSection(ss, i) <=> i = ss[1].index BY <1>1 DEF HasSection
<1>6. ss # << >> /\ ss[1] \in AllSections BY <1>1, EmptySeq, ElementOfSeq
<1>7. Range(ss) = {ss[1]} BY <1>1 DEF Range
<1> QED BY <1>4, <1>5, <1>6, <1>7

\* What the values of a resource say, whatever stream they are stored in.
Said(f, c) == {Bare(c, v) : v \in Resource(f, c)}

LEMMA ResourceIs ==
  ASSUME NEW f \in AllFiles, NEW c \in Viewed, Single(f, c.name)
  PROVE  /\ HasBlock(f, c.name) =>
              Resource(f, c) = Decode(c, TheBlock(f, c.name).sections[1].payload)
         /\ ~HasBlock(f, c.name) => Resource(f, c) = {}
         /\ \A v \in Resource(f, c) : IsValue(c, v)
<1>0. c \in Differs BY DEF Viewed, Differs
<1> DEFINE type == c.name
           ss == TheBlock(f, type).sections
<1>1. CASE HasBlock(f, type)
  <2>1. ss \in Seq(AllSections) /\ SectionsOf(f, type) = ss /\ Len(ss) = 1
    BY <1>1, BlockIs, SectionsAre
  <2> HIDE DEF ss
  <2>2. ss # << >> /\ ss[1] \in AllSections BY <2>1, OnlySection
  <2> DEFINE p == ss[1].payload
  <2>3. Resource(f, c) = Decode(c, p) BY <2>1, <2>2 DEF Resource
  <2>4. p \in Seq(Nat) BY <2>2 DEF AllSections
  <2> HIDE DEF p
  <2>5. \A v \in Decode(c, p) : IsValue(c, v) BY <1>0, <2>4, DecodeUnique
  <2> QED BY <1>1, <2>3, <2>5 DEF p, ss
<1>2. CASE ~HasBlock(f, type)
  <2>1. SectionsOf(f, type) = << >> BY <1>2, SectionsAre
  <2> QED BY <1>2, <2>1 DEF Resource
<1> QED BY <1>1, <1>2

LEMMA ViewOf ==
  ASSUME NEW f
  PROVE  /\ View(f, STRG) = {v.text : v \in Resource(f, STRG)}
         /\ View(f, VCTP) = Types(f) \cup ListedTopTypes(f)
         /\ View(f, LVSR) = Flags(f) \cup {{n} : n \in BreakpointCount(f)}
         /\ View(f, VERS) = Resource(f, VERS)
         /\ View(f, CONP) = {v.raw : v \in Resource(f, CONP)}
<1> DEFINE T == {v.text : v \in Resource(f, STRG)}
           B == {{n} : n \in BreakpointCount(f)}
           R(c) == {v.raw : v \in Resource(f, c)}
<1>1. \A c : View(f, c) = CASE c = STRG -> T
                            [] c = VCTP -> Types(f) \cup ListedTopTypes(f)
                            [] c = LVSR -> Flags(f) \cup B
                            [] c = VERS -> Resource(f, VERS)
                            [] OTHER -> R(c)
  BY DEF View
<1> HIDE DEF T, B, R
<1>2. /\ VCTP # STRG
      /\ LVSR # STRG /\ LVSR # VCTP
      /\ VERS # STRG /\ VERS # VCTP /\ VERS # LVSR
      /\ CONP # STRG /\ CONP # VCTP /\ CONP # LVSR /\ CONP # VERS
  BY DEF CONP, VERS, LVSR, STRG, VCTP, Fixed
<1>3. /\ View(f, STRG) = T
      /\ View(f, VCTP) = Types(f) \cup ListedTopTypes(f)
      /\ View(f, LVSR) = Flags(f) \cup B
      /\ View(f, VERS) = Resource(f, VERS)
      /\ View(f, CONP) = R(CONP)
  BY <1>1, <1>2
<1> QED BY <1>3 DEF T, B, R

\* The model's answers depend on what is said alone.
LEMMA ViewIs ==
  ASSUME NEW f, NEW g, NEW c \in Viewed, Said(f, c) = Said(g, c),
         \A v \in Resource(f, c) : IsValue(c, v),
         \A v \in Resource(g, c) : IsValue(c, v)
  PROVE  View(f, c) = View(g, c)
<1>1. CASE c = VCTP
  <2>1. VCTP.shape = "packed" /\ VCTP # STRG BY DEF VCTP, STRG
  <2> DEFINE R == Resource(f, c)
             S == Resource(g, c)
  <2>2. ASSUME NEW v, IsValue(c, v) PROVE Bare(c, v).inflated = v.inflated
    <3>1. v = [declared |-> v.declared, inflated |-> v.inflated, compressed |-> v.compressed]
      BY <1>1, <2>1, <2>2 DEF IsValue
    <3>2. Bare(c, v) = [v EXCEPT !.compressed = << >>] BY <1>1, <2>1 DEF Bare
    <3> QED BY <3>1, <3>2
  <2>3. {v.inflated : v \in R} = {x.inflated : x \in Said(f, c)} BY <2>2 DEF Said
  <2>4. {v.inflated : v \in S} = {x.inflated : x \in Said(g, c)} BY <2>2 DEF Said
  <2>5. {v.inflated : v \in R} = {v.inflated : v \in S} BY <2>3, <2>4
  <2>6. /\ Vctp(f) = UNION {ParseInner(x) : x \in {v.inflated : v \in R}}
        /\ Vctp(g) = UNION {ParseInner(x) : x \in {v.inflated : v \in S}}
    BY <1>1 DEF Vctp
  <2>7. Vctp(f) = Vctp(g) BY <2>5, <2>6
  <2>8. Types(f) = Types(g) /\ ListedTopTypes(f) = ListedTopTypes(g)
    BY <2>7 DEF Types, ListedTopTypes
  <2> HIDE DEF R, S
  <2> QED BY <1>1, <2>8, ViewOf
<1>2. CASE c # VCTP
  <2>1. c.shape # "packed" BY <1>2 DEF Viewed, STRG, VCTP, LVSR, CONP, VERS, Fixed
  <2>2. \A v : Bare(c, v) = v BY <2>1 DEF Bare
  <2>3. Resource(f, c) = Resource(g, c) BY <2>2 DEF Said
  <2>4. CASE c = STRG BY <2>3, <2>4, ViewOf
  <2>5. CASE c = LVSR
    <3>1. Flags(f) = Flags(g) /\ BreakpointCount(f) = BreakpointCount(g)
      BY <2>3, <2>5 DEF Flags, BreakpointCount
    <3> QED BY <2>5, <3>1, ViewOf
  <2>6. CASE c = VERS BY <2>3, <2>6, ViewOf
  <2>7. CASE c = CONP BY <2>3, <2>7, ViewOf
  <2> QED BY <1>2, <2>4, <2>5, <2>6, <2>7 DEF Viewed
<1> QED BY <1>1, <1>2

LEMMA ModelFollows ==
  ASSUME NEW x \in AllFiles, NEW y \in AllFiles, NEW c \in Viewed,
         Single(x, c.name), Single(y, c.name), View(x, c) # View(y, c)
  PROVE  LET ids(f) == {s.index : s \in Range(SectionsOf(f, c.name))}
         IN \E d \in DiffItems(x, y) :
              d.at.type = c.name /\ (ids(x) = ids(y) => d.kind = "decoded")
<1> DEFINE type == c.name
           ids(f) == {s.index : s \in Range(SectionsOf(f, type))}
           old == TheBlock(x, type).sections
           new == TheBlock(y, type).sections
<1>1. Said(x, c) # Said(y, c)
  <2>1. /\ \A v \in Resource(x, c) : IsValue(c, v)
        /\ \A v \in Resource(y, c) : IsValue(c, v)
    BY ResourceIs
  <2> QED BY <2>1, ViewIs
<1>2. HasBlock(x, type) \/ HasBlock(y, type)
  <2> SUFFICES ASSUME ~HasBlock(x, type), ~HasBlock(y, type) PROVE FALSE
    OBVIOUS
  <2>1. Resource(x, c) = {} /\ Resource(y, c) = {} BY ResourceIs
  <2> QED BY <1>1, <2>1 DEF Said
<1>3. ASSUME NEW f \in AllFiles, Single(f, type), HasBlock(f, type)
      PROVE  /\ TheBlock(f, type).sections \in Seq(AllSections)
             /\ Len(TheBlock(f, type).sections) = 1
             /\ ids(f) = {TheBlock(f, type).sections[1].index}
  <2> DEFINE ss == TheBlock(f, type).sections
  <2>1. ss \in Seq(AllSections) /\ SectionsOf(f, type) = ss /\ Len(ss) = 1
    BY <1>3, BlockIs, SectionsAre
  <2> HIDE DEF ss
  <2>2. Range(ss) = {ss[1]} BY <2>1, OnlySection
  <2>3. ids(f) = {ss[1].index} BY <2>1, <2>2
  <2> QED BY <2>1, <2>3 DEF ss
<1>4. ASSUME NEW f \in AllFiles, Single(f, type), ~HasBlock(f, type)
      PROVE  ids(f) = {}
  <2>1. SectionsOf(f, type) = << >> BY <1>4, SectionsAre
  <2>2. Range(<< >>) = {} BY DEF Range
  <2> QED BY <2>1, <2>2
<1>5. CASE HasBlock(x, type) <=> ~HasBlock(y, type)
  <2>1. LoneBlock(x, y, type).at.type = type BY <1>5, LoneBlockIs
  <2>2. LoneBlock(x, y, type) \in BlockItems(x, y) BY <1>5, <2>1, BlockItemAt
  <2>3. LoneBlock(x, y, type) \in DiffItems(x, y) BY <2>2 DEF DiffItems
  <2>4. ids(x) # ids(y)
    <3>1. HasBlock(x, type) => ids(x) # {} /\ ids(y) = {} BY <1>3, <1>4, <1>5
    <3>2. HasBlock(y, type) => ids(y) # {} /\ ids(x) = {} BY <1>3, <1>4, <1>5
    <3> QED BY <1>5, <3>1, <3>2
  <2> HIDE DEF ids
  <2> QED BY <2>1, <2>3, <2>4 DEF ids
<1>6. CASE HasBlock(x, type) /\ HasBlock(y, type)
  <2> DEFINE i == old[1].index
             j == new[1].index
             p == old[1].payload
             q == new[1].payload
  <2>1. /\ old \in Seq(AllSections) /\ Len(old) = 1 /\ ids(x) = {i}
        /\ new \in Seq(AllSections) /\ Len(new) = 1 /\ ids(y) = {j}
    BY <1>3, <1>6
  <2>2. /\ Resource(x, c) = Decode(c, p)
        /\ Resource(y, c) = Decode(c, q)
    BY <1>6, ResourceIs
  <2>3. CASE i # j
    <3>1. Visible(x, type, i) = Seen(old, i) /\ Visible(y, type, i) = Seen(new, i)
      BY <1>6, VisibleIs
    <3> HIDE DEF old, new, ids
    <3>2. HasSection(old, i) /\ ~HasSection(new, i) BY <2>1, <2>3, OnlySection
    <3>3. Seen(old, i) # Seen(new, i) BY <3>2 DEF Seen
    <3>4. PICK z \in DiffItems(x, y) : z.kind = "section" /\ z.at.type = type /\ z.at.index = i
      <4> HIDE DEF i, type
      <4> QED BY <1>6, <3>1, <3>3, DiffNames
    <3>5. ids(x) # ids(y) BY <2>1, <2>3
    <3> QED BY <3>4, <3>5 DEF ids
  <2>4. CASE i = j
    <3> HIDE DEF old, new, ids
    <3>1. /\ HasSection(old, i) /\ TheSection(old, i).payload = p
          /\ HasSection(new, i) /\ TheSection(new, i).payload = q
          /\ p \in Seq(Nat) /\ q \in Seq(Nat)
      <4>1. /\ \A k : HasSection(old, k) <=> k = old[1].index
            /\ TheSection(old, old[1].index) = old[1]
            /\ old[1] \in AllSections
        BY <2>1, OnlySection
      <4>2. /\ \A k : HasSection(new, k) <=> k = new[1].index
            /\ TheSection(new, new[1].index) = new[1]
            /\ new[1] \in AllSections
        BY <2>1, OnlySection
      <4> QED BY <2>4, <4>1, <4>2 DEF AllSections
    <3>2. c \in Differs BY DEF Viewed, Differs
    <3> HIDE DEF p, q
    <3>3. ~SaysTheSame(c, p, q)
      <4>1. {Bare(c, v) : v \in Decode(c, p)} # {Bare(c, v) : v \in Decode(c, q)}
        BY <1>1, <2>2 DEF Said
      <4>2. ~(Decode(c, p) = {} /\ Decode(c, q) = {}) BY <4>1
      <4> QED BY <4>1, <4>2 DEF SaysTheSame
    <3> HIDE DEF i
    <3>4. p # q /\ DecodedItems(type, i, p, q) # {} BY <3>1, <3>2, <3>3, DecodedMeaning
    <3>5. (\E d \in DiffItems(x, y) : d.kind = "decoded" /\ d.at.type = type /\ d.at.index = i)
            <=> /\ TheSection(old, i).payload # TheSection(new, i).payload
                /\ DecodedItems(type, i, TheSection(old, i).payload,
                                          TheSection(new, i).payload) # {}
      <4>1. HasSection(TheBlock(x, type).sections, i) /\ HasSection(TheBlock(y, type).sections, i)
        BY <3>1 DEF old, new
      <4> HIDE DEF type
      <4> QED BY <1>6, <4>1, DecodedItemAt DEF old, new
    <3> QED BY <3>1, <3>4, <3>5
  <2> QED BY <2>3, <2>4
<1> QED BY <1>2, <1>5, <1>6

\* Where two files differ in what the model says of a resource that each holds once,
\* the diff has an item for its type, a decoded one if the section stayed, whatever
\* the payloads and however the file was edited.
THEOREM ModelAlwaysFollowsDiff == Spec => []ModelFollowsDiff
<1>1. DiffInv => ModelFollowsDiff BY ModelFollows DEF DiffInv, ModelFollowsDiff, Viewed
<1> QED BY <1>1, FilesHold, PTL

=============================================================================
