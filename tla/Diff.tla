-------------------------------- MODULE Diff --------------------------------
(***************************************************************************)
(* The comparison of two files (pkg/lvdiff and the diff command), the      *)
(* second of which a caller edits step by step.  An item of a diff says    *)
(* what kind of thing changed and how, where, and from what to what; where *)
(* is a type, the index of a section, a field and a place in a list, and   *)
(* values are sequences of numbers.  The scalars of the three headers are  *)
(* one number each, and a payload stands for its hash.                     *)
(***************************************************************************)
EXTENDS Model

CONSTANTS
  Files,        \* the files to start from
  PayloadsOf,   \* what may be put into a section, by block type
  Names,        \* what a section may be called
  SectionIds,   \* the indices a section may have
  MaxEdits      \* edits to make

ASSUME MaxEditsAssumption == MaxEdits \in Nat

Headers == {"header", "secondaryHeader", "blockInfoList"}

\* What a file may hold: blocks of one section at least.
AllSections == [index : Nat, name : Nat, payload : Seq(Nat)]

AllBlocks == [type : DOMAIN PayloadsOf, sections : Seq(AllSections) \ {<< >>}]

AllFiles == [header : [Headers -> Nat], blocks : Seq(AllBlocks)]

ASSUME FilesAssumption == \A f \in Files : f \in AllFiles

ASSUME EditsAssumption ==
  /\ \A type \in DOMAIN PayloadsOf : \A p \in PayloadsOf[type] : p \in Seq(Nat)
  /\ Names \subseteq Nat
  /\ SectionIds \subseteq Nat

VARIABLES a, b, edits

vars == << a, b, edits >>

-----------------------------------------------------------------------------
\* Items.

Nowhere == 0 \* no index or no place; both count from 1 here

At(type, index, field, place) == [type |-> type, index |-> index, field |-> field, place |-> place]

Item(kind, at, old, new) ==
  [kind |-> kind, at |-> at, old |-> old, new |-> new,
   category |-> IF old = {} THEN "added" ELSE IF new = {} THEN "removed" ELSE "modified"]

\* A value that is there on both sides and differs.
Changed(kind, at, old, new) == IF old = new THEN {} ELSE {Item(kind, at, {old}, {new})}

HeaderItems(x, y) ==
  UNION {Changed("header", At(h, Nowhere, "", Nowhere), << x.header[h] >>, << y.header[h] >>) :
           h \in DOMAIN x.header}

-----------------------------------------------------------------------------
\* Decoded values: the exported fields of structs, lists item by item.  Codecs of
\* lists of structs are left out; they add another level of the same.

Differs == {MUID, CONP, CPC2, LIBN, FPEX, BDEX, STRG, VERS, LVSR, VCTP}

Scalars(c, v) ==
  CASE c.shape = "fixed" -> [raw |-> v.raw]
    [] c.shape = "text" -> [text |-> v.text]
    [] c.shape = "version" -> [minor |-> << v.minor >>, patch |-> << v.patch >>,
                               stage |-> << v.stage >>, text |-> v.text]
    [] c.shape = "flags" -> [version |-> << v.version >>, raw |-> v.raw]
    [] OTHER -> [none |-> << >>]

\* Mutant of Fields: also the stream a value was inflated from.
FieldsAndCache(c, v) ==
  IF c.shape = "packed"
  THEN [declared |-> << v.declared >>, inflated |-> v.inflated, compressed |-> v.compressed]
  ELSE Scalars(c, v)

\* The stream a value was inflated from does not count.
Fields(c, v) ==
  IF c.shape = "packed" THEN [declared |-> << v.declared >>, inflated |-> v.inflated]
  ELSE Scalars(c, v)

List(c, v) ==
  CASE c.shape = "names" -> v.items
    [] c.shape = "counted" -> [i \in DOMAIN v.items |-> << v.items[i] >>]
    [] OTHER -> << >>

ValueItems(c, at, x, y) ==
  LET old == List(c, x)
      new == List(c, y)
      Here(l, i) == IF i \in DOMAIN l THEN {l[i]} ELSE {}
  IN (UNION {Changed("decoded", [at EXCEPT !.field = n], Fields(c, x)[n], Fields(c, y)[n]) :
               n \in DOMAIN Fields(c, x)})
     \cup {Item("decoded", [at EXCEPT !.place = i], Here(old, i), Here(new, i)) :
             i \in {i \in DOMAIN old \cup DOMAIN new : Here(old, i) # Here(new, i)}}

\* What the error of Decode tells apart; never empty.
ErrorText(c, p) ==
  CASE c.shape = "names" ->
         IF p = << >> THEN << 0 >>
         ELSE IF Strings(p, 2, p[1]) # {}
              THEN << 3, CHOOSE n \in 0..Len(p) : \E s \in Strings(p, 2, p[1]) : s.next + n = Len(p) + 1, p[1] >>
         ELSE LET k == Max({n \in 0..p[1] : Strings(p, 2, n) # {}})
                  next == (CHOOSE s \in Strings(p, 2, k) : TRUE).next
              IN IF next > Len(p) THEN << 1, k >> ELSE << 2, k, p[next], Len(p) - next >>
    [] c.shape = "packed" ->
         LET z == Rest(p, 1)
         IN IF p = << >> THEN << 0 >>
            ELSE IF Inflate(z) # {} THEN << 2, p[1], Len(CHOOSE x \in Inflate(z) : TRUE) >>
            ELSE IF z = << >> THEN << 1 >>
            ELSE IF z[1] \in {OwnForm, OtherForm} THEN << 1 >> \* the stream ends too early
            ELSE << 3 >> \* not a stream
    [] c.shape = "fixed" -> << Len(p) >>
    [] c.shape = "version" ->
         IF Len(p) < VersionHead + 2 THEN << Len(p) >> ELSE << Len(p), p[VersionHead + 1] >>
    [] OTHER -> << Len(p), IF p = << >> THEN 0 ELSE p[1] >>

Result(c, p) ==
  IF Decode(c, p) = {} THEN ErrorText(c, p) ELSE << >>

\* Two errors with the same text are no difference.
DecodedItems(type, index, p, q) ==
  LET c == Lookup(Differs, type)
      at == At(type, index, "decoded", Nowhere)
  IN IF c = Opaque THEN {}
     ELSE (UNION {ValueItems(c, at, v, w) : v \in Decode(c, p), w \in Decode(c, q)})
          \cup Changed("decoded", at, Result(c, p), Result(c, q))

-----------------------------------------------------------------------------
\* Sections and blocks.  Both are looked up in a map, where the last of several
\* with the same key stays.

LastIn(S) == {k \in S : \A j \in S : j <= k}

\* Mutant of SectionAt: the first stays.
FirstSectionAt(sections, i) ==
  LET found == {j \in DOMAIN sections : sections[j].index = i}
  IN {sections[j] : j \in {k \in found : \A l \in found : k <= l}}

SectionAt(sections, i) ==
  {sections[j] : j \in LastIn({k \in DOMAIN sections : sections[k].index = i})}

BlockOf(f, type) ==
  {f.blocks[j] : j \in LastIn({k \in DOMAIN f.blocks : f.blocks[k].type = type})}

BlockDigest(block) ==
  << Len(block.sections),
     FoldLeft(LAMBDA n, s : n + Len(s.payload), 0, block.sections) >>

SectionDigest(s) == << s.name, Len(s.payload) >> \o s.payload

\* Mutant of PairItems: payloads of one size count as the same.
PairBySize(type, x, y) ==
  LET here(field) == At(type, x.index, field, Nowhere)
  IN Changed("section", here("name"), << x.name >>, << y.name >>)
     \cup IF Len(x.payload) = Len(y.payload) THEN {}
          ELSE Changed("section", here("content"), x.payload, y.payload)
               \cup DecodedItems(type, x.index, x.payload, y.payload)

PairItems(type, x, y) ==
  LET here(field) == At(type, x.index, field, Nowhere)
  IN Changed("section", here("name"), << x.name >>, << y.name >>)
     \cup Changed("section", here("size"), << Len(x.payload) >>, << Len(y.payload) >>)
     \cup Changed("section", here("content"), x.payload, y.payload)
     \cup IF x.payload = y.payload THEN {}
          ELSE DecodedItems(type, x.index, x.payload, y.payload)

SectionItems(type, old, new) ==
  UNION {LET x == SectionAt(old, i)
             y == SectionAt(new, i)
         IN IF x # {} /\ y # {}
            THEN UNION {PairItems(type, s, t) : s \in x, t \in y}
            ELSE {Item("section", At(type, i, "", Nowhere),
                       {SectionDigest(s) : s \in x}, {SectionDigest(s) : s \in y})} :
           i \in {s.index : s \in Range(old) \cup Range(new)}}

TypesOf(x, y) == {x.blocks[k].type : k \in DOMAIN x.blocks} \cup {y.blocks[k].type : k \in DOMAIN y.blocks}

BlockItems(x, y) ==
  UNION {LET old == BlockOf(x, type)
             new == BlockOf(y, type)
         IN IF old # {} /\ new # {}
            THEN UNION {SectionItems(type, s.sections, t.sections) : s \in old, t \in new}
            ELSE {Item("block", At(type, Nowhere, "", Nowhere),
                       {BlockDigest(s) : s \in old}, {BlockDigest(t) : t \in new})} :
           type \in TypesOf(x, y)}

DiffItems(x, y) == HeaderItems(x, y) \cup BlockItems(x, y)

\* The diff command exits with 1 if there is anything to show.
ExitCode(items) == IF items = {} THEN 0 ELSE 1

-----------------------------------------------------------------------------
\* What a caller does to the second file.

Init == a \in Files /\ b = a /\ edits = 0

Edit(f) == edits < MaxEdits /\ edits' = edits + 1 /\ b' = f /\ UNCHANGED a

SetHeader == \E h \in DOMAIN b.header : Edit([b EXCEPT !.header[h] = @ + 1])

SetPayload ==
  \E k \in DOMAIN b.blocks : \E i \in DOMAIN b.blocks[k].sections :
    \E p \in PayloadsOf[b.blocks[k].type] : Edit([b EXCEPT !.blocks[k].sections[i].payload = p])

SetName ==
  \E k \in DOMAIN b.blocks : \E i \in DOMAIN b.blocks[k].sections, n \in Names :
    Edit([b EXCEPT !.blocks[k].sections[i].name = n])

AddSection ==
  \E k \in DOMAIN b.blocks : \E i \in SectionIds, p \in PayloadsOf[b.blocks[k].type] :
    Edit([b EXCEPT !.blocks[k].sections = Append(@, [index |-> i, name |-> 0, payload |-> p])])

\* A file has a block at least, and a block a section.
RemoveSection ==
  \E k \in DOMAIN b.blocks : \E i \in DOMAIN b.blocks[k].sections :
    Len(b.blocks[k].sections) > 1 /\ Edit([b EXCEPT !.blocks[k].sections = RemoveAt(@, i)])

AddBlock ==
  \E type \in DOMAIN PayloadsOf : \E p \in PayloadsOf[type] :
    Edit([b EXCEPT !.blocks = Append(@,
            [type |-> type, sections |-> << [index |-> 1, name |-> 0, payload |-> p] >>])])

RemoveBlock ==
  \E k \in DOMAIN b.blocks : Len(b.blocks) > 1 /\ Edit([b EXCEPT !.blocks = RemoveAt(@, k)])

Reorder ==
  \/ Edit([b EXCEPT !.blocks = Reverse(@)])
  \/ \E k \in DOMAIN b.blocks : Edit([b EXCEPT !.blocks[k].sections = Reverse(@)])

Next ==
  \/ SetHeader \/ SetPayload \/ SetName \/ AddSection \/ RemoveSection
  \/ AddBlock \/ RemoveBlock \/ Reorder

Spec == Init /\ [][Next]_vars

-----------------------------------------------------------------------------
\* Properties.

LastOf(S) == CHOOSE k \in S : \A j \in S : j <= k

\* The section a reader who goes through the file finds last under a type and an
\* index: its name and payload.
Visible(f, type, i) ==
  LET ks == {k \in DOMAIN f.blocks : f.blocks[k].type = type}
      sections == f.blocks[LastOf(ks)].sections
      is == {j \in DOMAIN sections : sections[j].index = i}
  IN IF ks = {} THEN {}
     ELSE IF is = {} THEN {}
     ELSE {<< sections[LastOf(is)].name, sections[LastOf(is)].payload >>}

HasBlock(f, type) == \E k \in DOMAIN f.blocks : f.blocks[k].type = type

\* A diff names exactly the headers, types and sections that differ.  Of several
\* with the same key it sees the last; with keys that occur once it is empty only
\* if the files hold the same.
DiffIsComplete ==
  \A items \in {DiffItems(a, b)} :
    /\ \A h \in DOMAIN a.header :
         a.header[h] # b.header[h] <=> \E x \in items : x.kind = "header" /\ x.at.type = h
    /\ \A type \in DOMAIN PayloadsOf :
         /\ HasBlock(a, type) # HasBlock(b, type)
              <=> \E x \in items :
                    /\ x.kind = "block" /\ x.at.type = type
                    /\ x.category = IF HasBlock(a, type) THEN "removed" ELSE "added"
         /\ HasBlock(a, type) /\ HasBlock(b, type) =>
              \A i \in SectionIds :
                Visible(a, type, i) # Visible(b, type, i)
                  <=> \E x \in items : x.kind = "section" /\ x.at.type = type /\ x.at.index = i
    /\ ExitCode(items) = 0 => \A type \in DOMAIN PayloadsOf, i \in SectionIds :
                                Visible(a, type, i) = Visible(b, type, i)

Single(f, type) == Len(SectionsOf(f, type)) <= 1

View(f, c) ==
  CASE c = STRG -> {v.text : v \in Resource(f, STRG)}
    [] c = VCTP -> Types(f) \cup ListedTopTypes(f)
    [] c = LVSR -> Flags(f) \cup {{n} : n \in BreakpointCount(f)}
    [] c = VERS -> Resource(f, VERS)
    [] OTHER -> {v.raw : v \in Resource(f, c)}

\* What the model says of a resource changes only where the diff has an item for
\* its type, a decoded one if the section stayed, provided no type has several
\* sections: of those the model takes the first and the diff tells none apart by
\* their order.
ModelFollowsDiff ==
  \A c \in {STRG, VCTP, LVSR, CONP, VERS} :
    Single(a, c.name) /\ Single(b, c.name) /\ View(a, c) # View(b, c) =>
      LET ids(f) == {s.index : s \in Range(SectionsOf(f, c.name))}
      IN \E x \in DiffItems(a, b) :
           x.at.type = c.name /\ (ids(a) = ids(b) => x.kind = "decoded")

\* What the model says of a file when nothing in particular is asked for.
Overview(f) ==
  [list |-> ListResources(f), issues |-> Issues(f), pane |-> ConnectorPane(f),
   cached |-> [c \in Cached |-> Resource(f, c)],
   depends |-> [name \in DOMAIN LinkCodecs |-> Dependencies(f, name)]]

\* Of a type that no file has twice and the diff has nothing to say of, the model
\* lists the same sections and dependencies, and of three such types it builds the
\* same connector pane.  Where the model decodes another section than the diff
\* compares and what it says changes unseen, the model warns of several sections.
OverviewFollowsDiff ==
  \A items \in {DiffItems(a, b)} : \A says \in {[f \in {a, b} |-> Overview(f)]} :
    LET Shown(type) == \E x \in items : x.at.type = type
        Silent(type) == Single(a, type) /\ Single(b, type) /\ ~Shown(type)
        Listed(f, type) == {r \in Range(says[f].list) : r.type = type}
    IN /\ \A type \in DOMAIN PayloadsOf :
            Silent(type) => /\ Listed(a, type) = Listed(b, type)
                            /\ type \in DOMAIN LinkCodecs => says[a].depends[type] = says[b].depends[type]
       /\ (\A c \in {CONP, CPC2, VCTP} : Silent(c.name)) => says[a].pane = says[b].pane
       /\ \A c \in Cached :
            says[a].cached[c] # says[b].cached[c] /\ ~Shown(c.name) =>
              [code |-> "multiple_sections", type |-> c.name] \in says[a].issues \cup says[b].issues

\* A value without the stream it is stored in.
Bare(c, v) == IF c.shape = "packed" THEN [v EXCEPT !.compressed = << >>] ELSE v

\* Whether two payloads say the same: both the same value, however it is stored,
\* or both the same error.
SaysTheSame(c, p, q) ==
  IF Decode(c, p) = {} /\ Decode(c, q) = {} THEN ErrorText(c, p) = ErrorText(c, q)
  ELSE {Bare(c, v) : v \in Decode(c, p)} = {Bare(c, v) : v \in Decode(c, q)}

\* Decoded items appear where a payload says something else, and not where it is
\* only stored in another way or still fails for the same reason.
DecodedItemsAreMeaning ==
  \A items \in {DiffItems(a, b)} :
    \A c \in Differs \cap {Lookup(Differs, t) : t \in DOMAIN PayloadsOf} : \A i \in SectionIds :
      \A x \in Visible(a, c.name, i), y \in Visible(b, c.name, i) :
        (\E d \in items : d.kind = "decoded" /\ d.at.type = c.name /\ d.at.index = i)
          <=> ~SaysTheSame(c, x[2], y[2])

=============================================================================
