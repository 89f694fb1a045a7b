------------------------------ MODULE Payloads ------------------------------
(***************************************************************************)
(* Every payload up to a bound, put together piece by piece, given to the  *)
(* codecs of its family: each decodes it, writes what it decoded, and      *)
(* writes it again after an edit.                                          *)
(***************************************************************************)
EXTENDS Codecs, WireTables, HeapEntries

CONSTANTS
  Families, \* for each: the codecs that read its payloads, the pieces these are
            \* put together from, and how many cells they have at most
  Blobs,    \* data to be read as the types of a list
  EntryHeads, \* the command words of heap entries
  WireHeads   \* for each family of wire tables: their counts and modes

ASSUME FamiliesAssumption ==
  \A n \in DOMAIN Families :
    /\ Families[n].codecs \subseteq All
    /\ Families[n].pieces \subseteq Seq(Nat)
    /\ n \in {"types", "records"} => Families[n].pieces \subseteq Seq(0..(WordMod - 1))
    /\ n = "entries" => Families[n].pieces \subseteq Seq(0..(FieldMod - 1))

ASSUME BlobsAssumption == Blobs \subseteq Seq(0..(ByteMod - 1))

ASSUME EntryHeadsAssumption == EntryHeads \subseteq Seq(0..(FieldMod - 1))

VARIABLES family, payload

vars == << family, payload >>

Init == family \in DOMAIN Families /\ payload = << >>

Grow == \E piece \in Families[family].pieces :
          /\ Len(payload) + Len(piece) <= Families[family].max
          /\ payload' = payload \o piece
          /\ UNCHANGED family

Next == Grow

Spec == Init /\ [][Next]_vars

-----------------------------------------------------------------------------
\* What the codecs are given, and what they make of it.

\* The payloads of the state: link lists get their header here.
Inputs(c) ==
  IF c.shape = "links"
  THEN {<< 1, m, n >> \o payload : m \in {FPHP, LVIN}, n \in 1..2}
  ELSE {payload}

Cases == UNION {{c} \X Inputs(c) : c \in Families[family].codecs}

\* A value without what only tells how it was stored.
Meaning(c, v) ==
  CASE c.shape = "links" ->
         [v EXCEPT !.entries = [i \in DOMAIN @ |-> [@[i] EXCEPT !.path.raw = << >>]]]
    [] c.shape \in {"packed", "heap"} -> [v EXCEPT !.compressed = << >>]
    [] c.shape = "slice" -> IF v.count = 0 THEN [v EXCEPT !.shift = 0] ELSE v
    [] c.shape = "fonts" ->
         [v EXCEPT !.fonts = [i \in DOMAIN @ |->
            IF HasWideEntries(v.prop1) THEN [@[i] EXCEPT !.narrow = << 0 >>]
            ELSE [@[i] EXCEPT !.wide = Zeros(WideProperties)]]]
    [] OTHER -> v

\* Payloads the codec reads without keeping how they were written: numbers in
\* the long form that fit the short one, names of fonts out of order, shared or
\* apart, and what stands behind the text of a version.
NotCanonical(c, p) ==
  CASE c.shape = "slice" -> \E i \in DOMAIN p : p[i] = HalfWord
    [] c.shape = "text" -> ValidateText(p) # {}
    [] c.shape = "fonts" -> EncodeFonts(CHOOSE v \in DecodeFonts(p) : TRUE) # {p}
    [] c.shape = "version" -> ValidateVersion(p) # {} \/ VersionHead + p[VersionHead + 1] + 2 # Len(p)
    [] OTHER -> FALSE

\* Numbers at the ends of the short form and of the wide one, and the largest a
\* field of two words holds.
Numbers == {0, 1, HalfWord - 1, HalfWord, WordMod + 1, WideMod - 1, WideMod, DoubleMod - 1}

\* The values a caller may make of v by setting one of its fields, together
\* with the sizes that go with it.
Edits(c, v) ==
  CASE c.shape = "fixed" -> {[v EXCEPT !.raw[i] = 1 - @] : i \in DOMAIN v.raw}
    [] c.shape = "icon" ->
         {[v EXCEPT !.pixels[i] = x] : i \in DOMAIN v.pixels, x \in 0..2^c.bits}
    [] c.shape = "counted" -> {[v EXCEPT !.items = @ \o << x >>] : x \in 0..1}
    [] c.shape = "names" -> {[v EXCEPT !.items = @ \o << Zeros(n) >>] : n \in 0..(MaxLength + 1)}
    [] c.shape = "pairs" -> {[v EXCEPT !.items = @ \o << Zeros(n), Zeros(m) >>] : n, m \in 0..1}
    [] c.shape = "slice" -> {[v EXCEPT !.count = n] : n \in Numbers} \cup {[v EXCEPT !.shift = n] : n \in Numbers}
    [] c.shape = "fonts" ->
         {[v EXCEPT !.prop1 = 1 - @]}
         \cup {[v EXCEPT !.fonts[i].named = FALSE, !.fonts[i].name = << >>] : i \in DOMAIN v.fonts}
         \cup {[v EXCEPT !.fonts[i].named = TRUE, !.fonts[i].name = Zeros(n)] :
                 i \in DOMAIN v.fonts, n \in 0..(MaxLength + 1)}
    [] c.shape = "version" ->
         {[v EXCEPT !.minor = x] : x \in 0..Nibble} \cup {[v EXCEPT !.patch = x] : x \in 0..Nibble}
         \cup {[v EXCEPT !.text = Zeros(n)] : n \in 0..(MaxLength + 1)}
    [] c.shape = "text" -> {[v EXCEPT !.text = Zeros(n)] : n \in 0..(MaxLength + 1)}
    [] c.shape = "flags" -> {[v EXCEPT !.version = 1 - @]} \cup {[v EXCEPT !.raw = @ \o << 1 >>]}
    [] c.shape = "packed" ->
         {[v EXCEPT !.inflated = x, !.declared = Len(x)] : x \in {<< >>, << 0 >>, v.inflated \o << 1 >>}}
    [] c.shape = "heap" ->
         {[v EXCEPT !.content = x, !.length = Len(x), !.declared = 1 + Len(x)] :
            x \in {<< >>, << 0 >>, v.content \o << 0 >>}}
    [] c.shape = "links" ->
         {[v EXCEPT !.entries[i].path.raw = << >>] : i \in DOMAIN v.entries}
         \cup {[v EXCEPT !.entries[i].qualifiers = @ \o << Zeros(n) >>, !.entries[i].count = @ + 1] :
                 i \in DOMAIN v.entries, n \in {1, MaxLength + 1}}
    [] OTHER -> {}

-----------------------------------------------------------------------------
\* What a list of links may look like, without an order in which to look.

\* Whether p is one entry: some padding, the qualifiers, some padding, a path
\* that is as long as declared, and anything.
IsEntry(c, p) ==
  \E pad \in c.pads :
    /\ Len(p) >= EntryHead + pad
    /\ AllZero(SubSeq(p, EntryHead, EntryHead - 1 + pad))
    /\ p[EntryHead + pad] <= c.most
    /\ \E q \in Strings(p, EntryHead + pad + 1, p[EntryHead + pad]), s \in DOMAIN p :
         /\ s \in q.next..(q.next + MaxPad) /\ s < Len(p)
         /\ AllZero(SubSeq(p, q.next, s - 1))
         /\ p[s] = PTH0
         /\ s - 1 + PathHead + p[s + 1] <= Len(p)

\* Whether p is n entries, each but the first in sight as such, and a footer.
IsEntries(c, p, n) ==
  \E cuts \in kSubset(n - 1, 1..(Len(p) - FooterSize - EntryHead)) :
    LET at == << 0 >> \o SetToSortSeq(cuts, <) \o << Len(p) - FooterSize >>
    IN /\ \A i \in 1..n : IsEntry(c, SubSeq(p, at[i] + 1, at[i + 1]))
       /\ \A i \in 2..n : LooksLikeEntry(Rest(p, at[i]))

LinkCases == {x \in Cases : x[1].shape = "links"}

-----------------------------------------------------------------------------
\* Paths and targets, which are read from parts of an entry.

PathsReadBack ==
  \A r \in DecodePath(payload) : EncodePath(r.path) = {Prefix(payload, r.size)}

PathEdits(v) ==
  IF v.zeroFill THEN {}
  ELSE {[v EXCEPT !.components = @ \o << Zeros(n) >>] :
          n \in {0, MaxLength, MaxLength + 1, MaxWordLength, MaxWordLength + 1}}

Targets ==
  UNION {DecodeTarget(i, payload, s) : i \in {TDCC, LVCC, VILB, LVIN}, s \in {<< >>, << PTH0, 0 >>}}

TargetEdits(t) ==
  IF t.ident \in {TDCC, LVCC}
  THEN {[t EXCEPT !.desc = n] : n \in Numbers} \cup {[t EXCEPT !.offsets = << 1 >>]}
  ELSE {}

ReadTarget(ident, w) == DecodeTarget(ident, w.body, w.second)

-----------------------------------------------------------------------------
\* Lists of types, with data to be read as each of them.

TypeLists ==
  IF family \notin {"types", "records"} THEN {}
  ELSE UNION {{[inflated |-> << n >> \o payload, panic |-> r.panic, descs |-> r.descs] :
                 r \in ParseInner(<< n >> \o payload)} : n \in 0..3}

\* How many cells stand before the kth record.
RecordStart(descs, k) ==
  LET before[j \in 1 .. k] == IF j = 1 THEN 1 ELSE before[j - 1] + descs[j - 1].length
  IN before[k]

\* A value, its children, their children and so on.
Within(v) ==
  LET level[d \in 0 .. MaxDepth + 1] ==
        IF d = 0 THEN {v} ELSE UNION {Range(w.children) : w \in level[d - 1]}
  IN UNION {level[d] : d \in 0 .. MaxDepth + 1}

\* The cells a value was read from.
Flatten(v) ==
  LET flat[w \in Within(v)] ==
        CASE w.kind \in {"int", "uint", "bool"} ->
               [k \in 1..Width[w.type] |-> (w.num \div ByteMod^(Width[w.type] - k)) % ByteMod]
          [] w.kind = "string" -> WriteString(w.raw)
          [] w.kind = "cluster" -> FlattenSeq([k \in DOMAIN w.children |-> flat[w.children[k]]])
          [] OTHER -> w.raw
  IN flat[v]

\* The types a value of type i consists of, of however many levels.
Members(descs, i) ==
  IF i >= Len(descs) THEN {}
  ELSE IF descs[i + 1].type # Cluster THEN {}
  ELSE UNION {Range(m) : m \in ClusterMembers(descs[i + 1].inner)}

Parts(descs, i) ==
  LET parts[n \in 0 .. Len(descs)] ==
        IF n = 0 THEN Members(descs, i)
        ELSE parts[n - 1] \cup UNION {Members(descs, j) : j \in parts[n - 1]}
  IN parts[Len(descs)]

-----------------------------------------------------------------------------
\* Streams of heap entries, and wire tables.

EntryStreams == IF family # "entries" THEN {} ELSE {h \o payload : h \in EntryHeads}

Wires ==
  IF family \notin DOMAIN WireHeads THEN {}
  ELSE UNION {HeapWire(h \o payload) : h \in WireHeads[family]}

-----------------------------------------------------------------------------
\* Properties.

\* What a codec reads it writes, in the same bytes, and reads again.  Canonical
\* bytes come back where the value does not keep how the payload was written.
RoundTrip ==
  /\ \A x \in Cases : LET c == x[1] p == x[2] IN
       \A v \in Decode(c, p) : \A w \in {Encode(c, v)} :
         /\ \E y \in w : Decode(c, y) = {v}
         /\ NotCanonical(c, p) \/ w = {p}
  /\ family = "paths" => PathsReadBack
  /\ family = "targets" => \A t \in Targets : \A w \in {EncodeTarget(t)} :
       \E y \in w : y.body = payload /\ ReadTarget(t.ident, y) = {t}

\* What can be read of what is written of u: u itself.  Only of a number too large
\* for the wide form the top bit is lost, without an error, against varsize.go:29, by
\* which writing is the inverse of reading; a list of types that loses its count
\* with it cannot be read at all.
ReadAs(c, u) ==
  IF c # DTHP THEN {u}
  ELSE IF u.count > 0 /\ u.count % WideMod = 0 THEN {}
  ELSE {[count |-> u.count % WideMod, shift |-> u.shift % WideMod]}

TargetReadAs(u) == IF u.desc < WideMod THEN u ELSE [u EXCEPT !.desc = @ % WideMod]

\* A codec refuses an edited value or writes a payload that says what the value
\* says: no length and no string is cut off, no number but those above the wide form
\* (ReadAs), and nothing stale is written.
EditsAreRead ==
  /\ \A x \in Cases : LET c == x[1] IN
       \A v \in Decode(c, x[2]) : \A u \in Edits(c, v) : \A w \in Encode(c, u) :
         {Meaning(c, y) : y \in Decode(c, w)} = {Meaning(c, y) : y \in ReadAs(c, u)}
  /\ family = "targets" => \A t \in Targets : \A u \in TargetEdits(t) :
       \A w \in EncodeTarget(u) : ReadTarget(u.ident, w) = {TargetReadAs(u)}
  /\ family = "paths" => \A r \in DecodePath(payload) : \A u \in PathEdits(r.path) :
       \A w \in EncodePath(u) : {d.path : d \in DecodePath(w)} = {u}

\* Validate reports an error for exactly the payloads Decode refuses, and for
\* versions without their trailer.  It does not decode an LIvi with a marker it
\* does not know.
ErrorsReported ==
  \A x \in Cases : LET c == x[1] p == x[2] IN
    \/ (Decode(c, p) = {}) <=> (Errors(c, p) \ {"trailer.missing"} # {})
    \/ c = Link("LIvi") /\ ValidateLinks(LIvi, p) = {"marker.unknown"}

\* Guessing where entries end never makes a list unreadable that some choice of
\* ends makes readable, and never lets one through that none does.  Zeros behind
\* a path are never counted to the first path of an entry: they begin its tail,
\* so a caller who clears the bytes of the path loses nothing.
ReadsWhatCanBeRead ==
  \A x \in LinkCases : LET c == LinkCodecs[x[1].name] p == x[2] IN
    /\ (Decode(x[1], p) # {})
         <=> (c.markers = {} \/ p[2] \in c.markers) /\ IsEntries(c, Rest(p, HeaderSize), p[3])
    /\ \A v \in Decode(x[1], p) : \A i \in DOMAIN v.entries :
         Len(v.entries[i].path.raw) = PathHead + v.entries[i].path.declared

\* The records of a type list follow each other without a gap, each split into
\* a head, an inner part, and a label with its length and at most one zero
\* behind it; only a record shorter than its head ends the program.  The entries
\* of a heap take up their stream cell by cell, whatever forms their numbers have.
RecordsAreWhole ==
  /\ \A r \in TypeLists :
       IF r.panic THEN \E i \in DOMAIN r.inflated : \E l \in VarSize(r.inflated, i) : l.val <= RecordHead
       ELSE \A k \in DOMAIN r.descs :
         LET d == r.descs[k]
             start == RecordStart(r.descs, k)
             wide == r.inflated[start + 1] >= HalfWord
             head == (IF wide THEN WriteWide(d.length) ELSE << d.length >>) \o << d.flags, d.type >>
             body == SubSeq(r.inflated, start + Len(head) + 1, start + d.length)
         IN /\ head = SubSeq(r.inflated, start + 1, start + Len(head))
            /\ \/ body = d.inner /\ d.label = << >>
               \/ /\ HasLabel(d.flags)
                  /\ \E pad \in 0..1 : body = d.inner \o WriteString(d.label) \o Zeros(pad)
  /\ \A p \in EntryStreams : EntriesAreWhole(p)

\* Flattened data is what the value read from it would be written as: nothing is
\* skipped, read twice or taken from behind the end, and reading ends, with
\* nothing, for a type that contains itself.  A default is shown as a cluster
\* whenever some cluster takes it up whole.  The numbers of a wire table take it up
\* likewise; a table has one shape at most, and a tree has as many records as its
\* count says.
DataIsReadWhole ==
  /\ \A w \in Wires :
       /\ NumbersAreWhole(w)
       /\ ChainAutoPath(w) = {} \/ LeftwardChainPath(w) = {}
       /\ TreeEndpoints(w) # {} => Len(w.raw) \in (2 * w.waypoints)..(2 * w.waypoints + 1)
  /\ \A r \in TypeLists : \A b \in Blobs :
    LET all == 0..(Len(r.descs) - 1)
        whole == {i \in all : /\ r.descs[i + 1].type = Cluster
                             /\ \E f \in Unflatten(r.descs, i, b) : Flatten(f.value) = b}
    IN /\ \A i \in all : \A f \in Unflatten(r.descs, i, b) :
            f.used <= Len(b) /\ Flatten(f.value) = Prefix(b, f.used)
       /\ \A i \in all : i \in Parts(r.descs, i) => Unflatten(r.descs, i, b) = {}
       /\ b # << >> => (ResolveCompositeDefault(r.descs, b) = {} <=> whole = {})
                      /\ ResolveCompositeDefault(r.descs, b) \subseteq whole

\* The readers agree on numbers of the width of their type, however they come by
\* them: as flattened data, as a literal, as a limit, or as a field of the heap,
\* where an unsigned number that fills the word may only have the wrong sign.
ReadersAgree ==
  \A r \in TypeLists : \A i \in 0..(Len(r.descs) - 1), b \in Blobs :
    LET d == r.descs[i + 1] IN
    \A f \in Unflatten(r.descs, i, b) :
      f.used = Len(b) /\ f.value.kind \in {"int", "uint"} =>
        /\ TypedConst(d, b).match
        /\ TypedConst(d, b).kind = f.value.kind /\ TypedConst(d, b).num = f.value.num
        /\ DataFill(d.type, b).kind = f.value.kind /\ DataFill(d.type, b).num = f.value.num
        /\ \E x \in AsStdInt(b, f.value.kind = "int") : (x - f.value.num) % ByteMod^MaxWord = 0
        /\ \A x \in ScalarContent(b) :
             f.value.num = IF f.value.kind = "int" THEN x.signed ELSE x.unsigned

=============================================================================
