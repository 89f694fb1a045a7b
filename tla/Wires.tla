------------------------------- MODULE Wires --------------------------------
(***************************************************************************)
(* What pkg/lvvi looks up in a walked heap: the class an entry stands in,  *)
(* the declaration of an object ID, the ends of a wire and the heap entry  *)
(* at which each end is drawn.  An entry has                               *)
(*   tag      "terminal" for the classes of WidgetKindTerminal, "element"  *)
(*            for arrayElement (-6), "termList", "wire" for a compressed   *)
(*            wire table, "bounds", "other" or one of the tags named in    *)
(*            the modules TypedHeap and Texts;                             *)
(*   class    its SL__class attribute, or None;                            *)
(*   id       its object ID attribute (-3), or None;                       *)
(*   indexed  whether it has the index attribute (-2);                     *)
(*   data     the bytes it holds.                                         *)
(***************************************************************************)
EXTENDS Heap, SequencesExt

CONSTANTS None, DefaultClass,
          MaxClimb \* entries ParentTopClass looks at, 128 in the code

ASSUME ClimbAssumption == MaxClimb \in Nat

First(S) == CHOOSE i \in S : \A j \in S : i <= j

\* The first entry of S from i upwards, where MaxClimb entries are looked at; 0 for
\* none.
Nearest(i, S) ==
  LET near[m \in 0 .. MaxClimb] ==
        [j \in 0 .. Len(flat) |->
           IF m = 0 \/ j = 0 THEN 0 ELSE IF j \in S THEN j ELSE near[m - 1][up[j]]]
  IN  near[MaxClimb][i]

\* The class of the nearest entry that has one, from i upwards.
ParentTopClass(i) ==
  LET j == Nearest(i, {k \in Indices : flat[k].class # None})
  IN  IF j = 0 THEN DefaultClass ELSE flat[j].class

-----------------------------------------------------------------------------
(* Object IDs. *)

Declarations(id) == {i \in Indices : flat[i].id = id}

IsCanonicalDeclaration(i) == flat[i].scope = "open" /\ flat[i].indexed

\* Mutant of ObjectIndex: the last canonical declaration stands.
LastObjectIndex(id) ==
  LET found[i \in 0 .. Len(flat)] ==
        IF i = 0 THEN 0
        ELSE IF flat[i].id = id /\ (found[i - 1] = 0 \/ IsCanonicalDeclaration(i)) THEN i
        ELSE found[i - 1]
  IN  found[Len(flat)]

\* The first declaration stands until a canonical one comes.
Replaces(i, found) ==
  found = 0 \/ (IsCanonicalDeclaration(i) /\ ~IsCanonicalDeclaration(found))

\* The scan of BuildHeapObjectIndex.
ObjectIndex(id) ==
  LET found[i \in 0 .. Len(flat)] ==
        IF i = 0 THEN 0
        ELSE IF flat[i].id = id /\ Replaces(i, found[i - 1]) THEN i
        ELSE found[i - 1]
  IN  found[Len(flat)]

\* The IDs the wire's termList mentions: those of the first list beside it.
TermLists(w) ==
  {c \in Indices : up[c] = up[w] /\ flat[c].scope = "open" /\ flat[c].tag = "termList"}

\* The mentions come in the order of the children.
WireTerminalIDs(w) ==
  IF up[w] = 0 \/ TermLists(w) = {} THEN << >>
  ELSE LET named == {c \in ToSet(down[First(TermLists(w))]) : flat[c].id # None}
           Mention(k) == CHOOSE c \in named : Cardinality({d \in named : d <= c}) = k
       IN  [k \in 1 .. Cardinality(named) |-> flat[Mention(k)].id]

-----------------------------------------------------------------------------
(* The heap entry at which the end of a wire is drawn. *)

IsTerminal(i) == flat[i].scope = "open" /\ flat[i].tag = "terminal"

\* The first terminal at or below an entry, children first to last; 0 for none.
WalkDown(i) ==
  LET below[j \in Indices] ==
        LET holding == {c \in DOMAIN down[j] : below[down[j][c]] # 0}
        IN  IF IsTerminal(j) THEN j
            ELSE IF holding = {} THEN 0 ELSE below[down[j][First(holding)]]
  IN  below[i]

\* The nearest terminal above an entry.
WalkUp(i) ==
  LET above[j \in Indices] ==
        IF up[j] = 0 THEN 0 ELSE IF IsTerminal(up[j]) THEN up[j] ELSE above[up[j]]
  IN  above[i]

IsStub(c, id) == flat[c].scope = "leaf" /\ flat[c].tag = "element" /\ flat[c].id = id

\* The first terminal with a stub of the ID among its children.
Carriers(id) ==
  {i \in Indices : IsTerminal(i) /\ \E c \in DOMAIN down[i] : IsStub(down[i][c], id)}
TerminalCarrying(id) ==
  IF Carriers(id) = {} THEN 0
  ELSE CHOOSE i \in Carriers(id) : \A j \in Carriers(id) : i <= j

\* Mutant of WireTerminalAnchor: the search above before the search below.
AnchorUpFirst(id) ==
  LET d == ObjectIndex(id)
  IN  IF d # 0 /\ WalkUp(d) # 0 THEN d
      ELSE IF d # 0 /\ WalkDown(d) # 0 THEN WalkDown(d)
      ELSE TerminalCarrying(id)

WireTerminalAnchor(id) ==
  LET d == ObjectIndex(id)
  IN  IF d # 0 /\ WalkDown(d) # 0 THEN WalkDown(d)
      ELSE IF d # 0 /\ WalkUp(d) # 0 THEN d
      ELSE TerminalCarrying(id)

-----------------------------------------------------------------------------
(* What the lookups promise.  They are asked of finished trees. *)

Done == status = "done"

Ids == {flat[i].id : i \in Indices} \ {None}

\* Entry j and the entries above it.
Above0(j) ==
  LET above[i \in 0 .. Len(flat)] == IF i = 0 THEN {} ELSE {i} \cup above[up[i]]
  IN  above[j]

\* Entry i and the entries below it.
Below0(i) == {j \in Indices : i \in Above0(j)}

\* An ID is resolved to its first canonical declaration, wherever it stands, and
\* to its first mention if it has none.
CanonicalWins ==
  Done => \A id \in Ids :
    LET canonical == {i \in Declarations(id) : IsCanonicalDeclaration(i)}
    IN  ObjectIndex(id) = First(IF canonical # {} THEN canonical ELSE Declarations(id))

\* An ID no entry declares, only stubs, of which a terminal carries one.
StubOnly(id) == Carriers(id) # {} /\ \A i \in Declarations(id) : IsStub(i, id)

\* The end of a wire is drawn at the first terminal the declaration of its ID
\* holds; at the declaration if it holds none and stands inside a terminal; else
\* at a terminal with a stub of the ID, or nowhere.  Where the declaration that
\* stands inside a terminal is itself a stub, nothing is claimed of an ID that only
\* stubs mention: see StubIsDrawnAtTerminal.
AnchorIsClosest ==
  Done => \A id \in Ids :
    LET d == ObjectIndex(id)
        inside == {t \in Below0(d) : IsTerminal(t)}
        around == {t \in Above0(d) : IsTerminal(t)}
        a == WireTerminalAnchor(id)
    IN  CASE inside # {} -> a = First(inside)
          [] inside = {} /\ around # {} -> StubOnly(id) \/ a = d
          [] OTHER -> IF Carriers(id) = {} THEN a = 0
                      ELSE IsTerminal(a) /\ \E c \in Indices : up[c] = a /\ IsStub(c, id)

\* What wire_anchor.go:23-25 says: "for endpoint IDs that appear only as stub LEAF
\* arrayElement children of a sdfTun (no canonical OPEN declaration anywhere), the
\* sdfTun itself is the visual anchor."  The index holds stubs too, so the search
\* above finds the terminal and the end is drawn at the stub.
StubIsDrawnAtTerminal ==
  Done => \A id \in Ids : StubOnly(id) => WireTerminalAnchor(id) \in Carriers(id)

=============================================================================
