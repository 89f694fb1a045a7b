-------------------------------- MODULE Links --------------------------------
(***************************************************************************)
(* The lists of links in LIvi, LIfp and LIbd (internal/codecs/livi, lifp   *)
(* and libd).  An entry does not say where it ends: behind its path comes  *)
(* a tail of unknown length, perhaps with a second path at its end, and    *)
(* padding the reader cannot compute stands before the path and, in LIvi,  *)
(* before the qualifiers.  The reader therefore looks for a boundary       *)
(* behind which everything else can be read.                               *)
(***************************************************************************)
EXTENDS Cells

PTH0 == FirstIdent
FPHP == FirstIdent + 1
BDHP == FirstIdent + 2
LVIN == FirstIdent + 3

HeaderSize == 3 \* version, marker, count
FooterSize == 1
EntryHead == 3  \* kind, link type, qualifier count
PathHead == 2   \* class, declared length
MaxPad == 3
MaxTrail == 4
MaxQualifiers == 64
MaxLikelyQualifiers == 8

\* Each of the three resources has a reader of its own, a copy of the others but
\* for these: which markers it reads, whether there may be padding before the
\* qualifiers, and how many qualifiers it puts up with.
LIvi == [markers |-> {}, known |-> {LVIN}, pads |-> 0..MaxPad, most |-> MaxQualifiers]
LIfp == [markers |-> {FPHP}, known |-> {FPHP}, pads |-> {0}, most |-> DoubleMod]
LIbd == [markers |-> {BDHP}, known |-> {BDHP}, pads |-> {0}, most |-> DoubleMod]

-----------------------------------------------------------------------------
\* Reading.

PathRef(raw) == [class |-> raw[1], declared |-> raw[2], raw |-> raw]

NoPath == << >>

\* How long the path at the start of p may be: as declared, or with some of the
\* zeros that follow.
CandidatePaths(p) ==
  IF Len(p) < PathHead THEN {}
  ELSE IF p[1] # PTH0 THEN {}
  ELSE {n \in (PathHead + p[2])..(PathHead + p[2] + MaxTrail) :
          n <= Len(p) /\ AllZero(SubSeq(p, PathHead + p[2] + 1, n))}

\* The cells of the path behind the qualifiers, which end before cell i.
PrimaryPathStart(p, i) ==
  {s \in i..Min({i + MaxPad, Len(p)}) : p[s] = PTH0 /\ AllZero(SubSeq(p, i, s - 1))}

\* The bytes between the path and the end of an entry: a tail and, where a path
\* ends exactly there, that path.
SplitTail(p) ==
  LET starts == {i \in 0..(Len(p) - 1) : Len(p) - i \in CandidatePaths(Rest(p, i))}
      cut == IF starts = {} THEN Len(p) ELSE Min(starts)
  IN [tail |-> Prefix(p, cut),
      secondary |-> IF starts = {} THEN NoPath ELSE << PathRef(Rest(p, cut)) >>]

LooksLikeEntry(p) ==
  Len(p) >= EntryHead => (~IsIdent(p[1]) /\ IsIdent(p[2]) /\ p[3] <= MaxLikelyQualifiers)

\* Below, read[n, q] are the entries of a list q of n, as far as the reader can
\* make them out.

\* Mutant of EntryEnds: the first place that looks like an entry is taken.
FirstInSight(read, p, n, from) ==
  IF n = 1 THEN {e \in {Len(p) - FooterSize} : e >= from}
  ELSE LET seen == {e \in from..(Len(p) - FooterSize - EntryHead) : LooksLikeEntry(Rest(p, e))}
       IN IF seen = {} THEN {}
          ELSE {e \in {Min(seen)} : read[n - 1, Rest(p, e)] # {}}

\* Where the first of n entries may end when its path ends at cell from: right
\* before the footer, or where the other entries can be read.
EntryEnds(read, p, n, from) ==
  IF n = 1 THEN {e \in {Len(p) - FooterSize} : e >= from}
  ELSE {e \in from..(Len(p) - FooterSize - EntryHead) :
          LooksLikeEntry(Rest(p, e)) /\ read[n - 1, Rest(p, e)] # {}}

\* The first of n entries, when pad cells stand before its qualifiers: the
\* shortest path behind which an end is found, and the first such end.
EntryAfter(c, read, p, pad, n) ==
  LET count == p[EntryHead + pad]
      Cut(q, s) ==
        LET paths == {k \in CandidatePaths(Rest(p, s - 1)) :
                        EntryEnds(read, p, n, s - 1 + k) # {}}
            path == Min(paths)
            end == Min(EntryEnds(read, p, n, s - 1 + path))
        IN IF paths = {} THEN {}
           ELSE {[entry |->
                    SplitTail(SubSeq(p, s + path, end)) @@
                    [kind |-> p[1], type |-> p[2], prefixPad |-> pad, count |-> count,
                     qualifiers |-> q.items, qualifierPad |-> s - q.next,
                     path |-> PathRef(SubSeq(p, s, s - 1 + path))],
                  size |-> end]}
  IN IF count > c.most THEN {}
     ELSE UNION {UNION {Cut(q, s) : s \in PrimaryPathStart(p, q.next)} :
                   q \in Strings(p, EntryHead + pad + 1, count)}

\* The first of n entries: the narrowest padding with which it can be read.
FirstEntry(c, read, p, n) ==
  LET pads == {k \in c.pads : /\ EntryHead + k <= Len(p)
                              /\ AllZero(SubSeq(p, EntryHead, EntryHead + k - 1))
                              /\ EntryAfter(c, read, p, k, n) # {}}
  IN IF pads = {} THEN {} ELSE EntryAfter(c, read, p, Min(pads), n)

\* The n entries and the footer p consists of.
Entries(c, p, n) ==
  LET from[k \in 0 .. n, q \in Seq(Nat)] ==
        IF k = 0
        THEN IF Len(q) = FooterSize THEN {[entries |-> << >>, footer |-> q[1]]} ELSE {}
        ELSE UNION {{[r EXCEPT !.entries = << e.entry >> \o @] : r \in from[k - 1, Rest(q, e.size)]} :
                      e \in FirstEntry(c, from, q, k)}
  IN from[n, p]

DecodeLinks(c, p) ==
  IF Len(p) < HeaderSize + FooterSize THEN {}
  ELSE IF c.markers # {} /\ p[2] \notin c.markers THEN {}
  ELSE {r @@ [version |-> p[1], marker |-> p[2], count |-> p[3]] :
          r \in Entries(c, Rest(p, HeaderSize), p[3])}

-----------------------------------------------------------------------------
\* Writing.

\* A path without its bytes is written as declared, filled with zeros; one with
\* bytes must agree with them.
WritePath(r) ==
  IF r.raw = << >> THEN {<< r.class, r.declared >> \o Zeros(r.declared)}
  ELSE IF r.raw[1] = r.class /\ r.raw[2] = r.declared THEN {r.raw}
  ELSE {}

WriteEntry(e) ==
  IF e.count # Len(e.qualifiers) \/ SomeLonger(e.qualifiers, MaxLength) THEN {}
  ELSE {<< e.kind, e.type >> \o Zeros(e.prefixPad) \o << e.count >>
        \o WriteCuts(e.qualifiers, MaxLength) \o Zeros(e.qualifierPad) \o path \o e.tail \o second :
          path \in WritePath(e.path),
          second \in IF e.secondary = NoPath THEN {<< >>} ELSE WritePath(e.secondary[1])}

EncodeLinks(c, v) ==
  LET written == [i \in DOMAIN v.entries |-> WriteEntry(v.entries[i])]
  IN IF \/ c.markers # {} /\ v.marker \notin c.markers
        \/ v.count # Len(v.entries)
        \/ \E i \in DOMAIN written : written[i] = {}
     THEN {}
     ELSE {<< v.version, v.marker, v.count >>
           \o FlattenSeq([i \in DOMAIN written |-> CHOOSE w \in written[i] : TRUE])
           \o << v.footer >>}

EncodeLIvi(v) == EncodeLinks(LIvi, v)
EncodeLIfp(v) == EncodeLinks(LIfp, v)
EncodeLIbd(v) == EncodeLinks(LIbd, v)

\* What Validate reports.
ValidateLinks(c, p) ==
  IF Len(p) < HeaderSize + FooterSize THEN {"short"}
  ELSE IF p[2] \notin c.known THEN IF c.markers = {} THEN {"marker.unknown"} ELSE {"marker.invalid"}
  ELSE IF DecodeLinks(c, p) = {} THEN {"decode.invalid"}
  ELSE {}

ValidateLIvi(p) == ValidateLinks(LIvi, p)
ValidateLIfp(p) == ValidateLinks(LIfp, p)
ValidateLIbd(p) == ValidateLinks(LIbd, p)

=============================================================================
