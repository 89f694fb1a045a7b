-------------------------------- MODULE Model --------------------------------
(***************************************************************************)
(* What pkg/lvvi (model.go) says of an opened file: it looks a resource up *)
(* by its type, decodes the payload of the first section it finds and      *)
(* joins the connector pane and the dependencies to the list of types.     *)
(* A file has a header, blocks of sections, and the tail of its name       *)
(* table.  Names are numbers.                                              *)
(***************************************************************************)
EXTENDS Codecs, TypeList

\* The codecs the model counts as known.
LvviRegistry == All \ {CONP, CPC2, ICON, ICL4, ICL8, VCTP, Link("LIfp"), Link("LIbd")}

\* The sections of all blocks of the type, in file order.
SectionsOf(f, type) ==
  FlattenSeq([k \in DOMAIN f.blocks |->
                IF f.blocks[k].type = type THEN f.blocks[k].sections ELSE << >>])

\* The value of the first section, none where it is missing or does not decode.
Resource(f, c) ==
  LET s == SectionsOf(f, c.name) IN IF s = << >> THEN {} ELSE Decode(c, s[1].payload)

-----------------------------------------------------------------------------
\* What is decoded when the model is made.

Cached == {VERS, STRG, LVSR}

\* Mutant of MultipleIssue: only the sections of one block are counted.
MultipleInBlock(f, c) ==
  IF \A k \in DOMAIN f.blocks : f.blocks[k].type = c.name => Len(f.blocks[k].sections) <= 1 THEN {}
  ELSE {[code |-> "multiple_sections", type |-> c.name]}

MultipleIssue(f, c) ==
  IF Len(SectionsOf(f, c.name)) <= 1 THEN {} ELSE {[code |-> "multiple_sections", type |-> c.name]}

DecodeIssue(f, c) ==
  IF SectionsOf(f, c.name) = << >> \/ Resource(f, c) # {} THEN {}
  ELSE {[code |-> "failed", type |-> c.name]}

Issues(f) == UNION {MultipleIssue(f, c) \cup DecodeIssue(f, c) : c \in Cached}

\* Where the flags are: words 0, 1 and 2 for the words 0, 1 and 5 of the code.
FlagBits ==
  LET At(word, mask) == [word |-> word, mask |-> mask]
  IN [SuspendOnRun |-> At(0, {0}), Locked |-> At(0, {1}), RunOnOpen |-> At(0, {2}),
      SavedForPrevious |-> At(1, {0}), SeparateCode |-> At(1, {1}),
      ClearIndicators |-> At(1, {2}), AutoErrorHandling |-> At(1, {3}),
      HasBreakpoints |-> At(2, {1}), Debuggable |-> At(2, {0, 2})]

Flags(f) ==
  {{n \in DOMAIN FlagBits : FlagBit(v, FlagBits[n].word, FlagBits[n].mask)} : v \in Resource(f, LVSR)}

BreakpointWord == 3 \* 28 in the code

BreakpointCount(f) ==
  {v.raw[BreakpointWord + 1] : v \in {x \in Resource(f, LVSR) : BreakpointWord < Len(x.raw)}}

-----------------------------------------------------------------------------
\* What is decoded when it is asked for.

Vctp(f) == UNION {ParseInner(v.inflated) : v \in Resource(f, VCTP)}

Types(f) == {r.descs : r \in Vctp(f)}

ListedTopTypes(f) == {r.tops : r \in Vctp(f)}

\* Types are numbered from 1 here.
TypeAt(f, id) == {d[id] : d \in {x \in Types(f) : id \in DOMAIN x}}

\* The number in a section of the connector pane.
PaneNumber(f, c) == {v.raw[1] : v \in Resource(f, c)}

\* A missing one of the two is 0.
ConnectorPane(f) ==
  LET Or0(s) == IF s = {} THEN {0} ELSE s
  IN UNION {{[conp |-> n, cpc2 |-> m, type |-> TypeAt(f, n)] : n \in Or0(pane[CONP]), m \in Or0(pane[CPC2])} :
              pane \in {[c \in {CONP, CPC2} |-> PaneNumber(f, c)]} \ {[c \in {CONP, CPC2} |-> {}]}}

PathOf(raw) == {r.path : r \in DecodePath(raw)}

Dependency(e) ==
  [link |-> e.type, qualifiers |-> e.qualifiers,
   primary |-> PathOf(e.path.raw),
   secondary |-> IF e.secondary = NoPath THEN {} ELSE PathOf(e.secondary[1].raw),
   target |-> {[desc |-> t.desc, offsets |-> t.offsets] :
                 t \in IF e.type \in {TDCC, LVCC} THEN Target(e) ELSE {}}]

\* FrontPanelImports, BlockDiagramImports and VIDependencies.
Dependencies(f, name) ==
  {[i \in DOMAIN v.entries |-> Dependency(v.entries[i])] : v \in Resource(f, Link(name))}

ListResources(f) ==
  FlattenSeq([k \in DOMAIN f.blocks |->
    LET b == f.blocks[k]
    IN [i \in DOMAIN b.sections |->
          [type |-> b.type, index |-> b.sections[i].index, name |-> b.sections[i].name,
           size |-> Len(b.sections[i].payload), decoded |-> Lookup(LvviRegistry, b.type) # Opaque]]])

=============================================================================
