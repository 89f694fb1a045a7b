------------------------------- MODULE Texts --------------------------------
(***************************************************************************)
(* The texts of a heap (pkg/lvvi/text.go, HeapTexts): names and labels, and *)
(* the lists of items of rings and booleans, each with the class of the    *)
(* object it belongs to and the role of the part it stands in.  The same   *)
(* number tags a text in some classes and another field elsewhere; that is *)
(* tag "text".  Tag "nodeName" stands for the tags of text that mean the   *)
(* same everywhere, "buf" holds a list of items, and "partId" a role.  An  *)
(* entry of a boolean size has its value in its data.                      *)
(***************************************************************************)
EXTENDS TypedHeap

CONSTANTS TextHair, FontRun, MultiLabel, BigMultiLabel \* classes around texts

ASSUME DataAssumption == \A e \in Entries : e.data \in Seq(Nat)

PartWord == 1   \* bytes of a role, 4 in the code
PartIDNone == 0

TextClasses == {TextHair, FontRun}
TextWrappers == {TextHair, FontRun, MultiLabel, BigMultiLabel}

ResolveTagName(tag, class) ==
  IF tag = "text" /\ class \notin TextClasses THEN "activePlot" ELSE tag

\* Objects go by their class, but for those whose tag is of the system's.
HeapTagNameAt(i) ==
  IF flat[i].class # None /\ flat[i].tag # "element" THEN flat[i].class
  ELSE ResolveTagName(flat[i].tag, ParentTopClass(up[i]))

-----------------------------------------------------------------------------
(* What an entry says. *)

IsHeapString(i) ==
  ResolveTagName(flat[i].tag, ParentTopClass(up[i])) \in {"text", "nodeName"}

IsLabelList(i) == flat[i].tag = "buf" /\ ParentTopClass(up[i]) = MultiLabel

\* Lines behind one byte of length each, up to one that is cut off.
PStrList(b) ==
  LET from[i \in 1 .. Len(b) + 1] ==
        IF i > Len(b) THEN [lines |-> << >>, ok |-> TRUE]
        ELSE IF i + b[i] > Len(b) THEN [lines |-> << >>, ok |-> FALSE]
        ELSE [from[i + b[i] + 1] EXCEPT !.lines = << SubSeq(b, i + 1, i + b[i]) >> \o @]
  IN from[1]

-----------------------------------------------------------------------------
(* Where it says it. *)

NearestTextOwner(i) ==
  LET j == Nearest(i, {k \in Indices : flat[k].class \notin TextWrappers \cup {None}})
  IN IF j = 0 THEN None ELSE flat[j].class

\* FindScalarChild for partId: children that are too long for a number are passed
\* over.
PartFields(j) ==
  {k \in ToSet(down[j]) : flat[k].tag = "partId" /\ ScalarContent(flat[k].data) # {}}

PartID(k) ==
  LET v == CHOOSE v \in ScalarContent(flat[k].data) : TRUE
  IN SignExtend(v.unsigned % ByteMod^PartWord, PartWord)

\* Mutant of NearestPartRole: any text in the object has its role.
OwnersPartRole(i) ==
  LET j == Nearest(i, {k \in Indices : flat[k].class # None /\ PartFields(k) # {}})
  IN IF j = 0 THEN PartIDNone ELSE PartID(First(PartFields(j)))

NearestPartRole(i) ==
  LET j == Nearest(i, {k \in Indices : PartFields(k) # {}})
  IN IF j = 0 THEN PartIDNone ELSE PartID(First(PartFields(j)))

HeapText(i, kind, lines) ==
  [node |-> i, tag |-> flat[i].tag, name |-> HeapTagNameAt(i), kind |-> kind, lines |-> lines,
   role |-> NearestPartRole(up[i]), owner |-> NearestTextOwner(up[i])]

\* A list that is cut off is left out, with the lines that could be read.
HeapTexts ==
       {HeapText(i, "string", << flat[i].data >>) : i \in {i \in Indices : IsHeapString(i)}}
  \cup {HeapText(i, "label-list", PStrList(flat[i].data).lines) :
          i \in {i \in Indices : IsLabelList(i) /\ PStrList(flat[i].data).ok}}

-----------------------------------------------------------------------------

\* The scopes around entry i, at most MaxClimb outwards.
ScopesNear(i) ==
  LET around == {j \in Indices : Encloses(j, i)}
  IN  {j \in around : Cardinality({k \in around : k >= j}) <= MaxClimb}

\* Those with a class, and with one that is no wrapper.
ClassedNear(i) == {j \in ScopesNear(i) : flat[j].class # None}
OwnersNear(i) == {j \in ClassedNear(i) : flat[j].class \notin TextWrappers}

\* The roles that stand directly in scope j, and the scopes with one.
RolesIn(j) ==
  {k \in Indices :
     flat[k].tag = "partId" /\ Len(flat[k].data) <= MaxWord /\ ScopeAround(k) = j}
PartsNear(i) == {j \in ScopesNear(i) : RolesIn(j) # {}}

\* From one length to the next b comes out even.
IsWhole(b) ==
  b = << >> \/ \E heads \in SUBSET DOMAIN b :
                 1 \in heads /\ \A p \in heads : p + b[p] + 1 \in heads \cup {Len(b) + 1}

Flattened(lines) == FlattenSeq([k \in DOMAIN lines |-> << Len(lines[k]) >> \o lines[k]])

TextsAt(i) == {t \in HeapTexts : t.node = i}

\* Of every text in the stream, and of nothing else, the lines are listed.  Whether
\* an entry is one, of whose object and in which role, is said by the scopes around
\* it, at most MaxClimb outwards: the class by the first that has one, the owner by
\* the first that has one which is no wrapper, and the role by the first number
\* that stands directly in one of them, before or behind the text.  The three may be
\* three scopes; scopes that have ended, or are inside, have no say.
TextsKeepContext ==
  Done => \A i \in Indices :
    LET class == IF ClassedNear(i) = {} THEN DefaultClass ELSE flat[Max(ClassedNear(i))].class
        b == flat[i].data
    IN  /\ TextsAt(i) # {} <=>
             \/ flat[i].tag = "nodeName"
             \/ flat[i].tag = "text" /\ class \in {TextHair, FontRun}
             \/ flat[i].tag = "buf" /\ class = MultiLabel /\ IsWhole(b)
        /\ \A t \in TextsAt(i) :
             /\ t.owner = IF OwnersNear(i) = {} THEN None ELSE flat[Max(OwnersNear(i))].class
             /\ t.role = IF PartsNear(i) = {} THEN PartIDNone
                         ELSE PartID(Min(RolesIn(Max(PartsNear(i)))))
             /\ b = IF t.kind = "string" THEN t.lines[1] ELSE Flattened(t.lines)

=============================================================================
