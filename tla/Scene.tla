------------------------------- MODULE Scene --------------------------------
(***************************************************************************)
(* The scene a walked heap is drawn as (internal/render/scene.go): which   *)
(* entries become groups, labels and terminals, and which wires are drawn  *)
(* between the terminals.  Sizes and coordinates are left out, and so are  *)
(* the box and title of a group, which come and go with it; distinct       *)
(* terminals count as distinct points.                                     *)
(***************************************************************************)
EXTENDS Wires, WireTables

Node(k, i) == [kind |-> k, heap |-> i]

\* An open arrayElement that declares an ID: the end of a wire in a connector pane.
IsPerEndpointCanonical(i) ==
  IsCanonicalDeclaration(i) /\ flat[i].tag = "element" /\ flat[i].id # None

\* Mutant of SubtreeHasTerminal: it looks no deeper than the children.
HasTerminalChild(i) == \E c \in ToSet(down[i]) : IsTerminal(c)

SubtreeHasTerminal(i) ==
  LET holds[j \in Indices] == \E c \in ToSet(down[j]) : IsTerminal(c) \/ holds[c]
  IN holds[i]

\* A bounds leaf gives its group a size and is not drawn.
Drawn(c) == flat[c].scope = "open" \/ (flat[c].scope = "leaf" /\ flat[c].tag # "bounds")
DrawnBelow(j) == {c \in ToSet(down[j]) : Drawn(c)}

\* An entry below a terminal that is drawn.
Nested(i) == IsTerminal(i) \/ (IsPerEndpointCanonical(i) /\ ~SubtreeHasTerminal(i))

\* The nodes collected for an entry below a terminal.  A terminal is built like one
\* outside, which collects what is below it in the same way.
NestedTerminals(i) ==
  LET nested[j \in Indices] ==
        IF flat[j].scope # "open" THEN {}
        ELSE (IF Nested(j) THEN {Node("terminal", j)} ELSE {})
             \cup UNION {nested[c] : c \in ToSet(down[j])}
  IN nested[i]

\* The nodes of the item built for an entry.
LayoutItem(i) ==
  LET item[j \in Indices] ==
        IF IsTerminal(j)
          THEN {Node("terminal", j)} \cup UNION {NestedTerminals(c) : c \in ToSet(down[j])}
        ELSE IF flat[j].scope = "open"
          THEN {Node("group", j)} \cup UNION {item[c] : c \in DrawnBelow(j)}
        ELSE IF flat[j].scope = "leaf" THEN {Node("label", j)} ELSE {}
  IN item[i]

SceneNodes == UNION {LayoutItem(r) : r \in ToSet(roots)}

\* The entries wires can end at (the keys of terminalByHeap).
SceneTerminals == {i \in Indices : Node("terminal", i) \in SceneNodes}

-----------------------------------------------------------------------------
(* Wires. *)

IsWire(i) ==
  flat[i].scope = "leaf" /\ flat[i].tag = "wire" /\ HeapWire(flat[i].data) # {}

\* The shapes among them that are drawn.
IsChain(i) == IsWire(i) /\ \A w \in HeapWire(flat[i].data) : ChainAutoPath(w) # {}
IsBranched(i) == IsWire(i) /\ \A w \in HeapWire(flat[i].data) : TreeEndpoints(w) # {}

WireEnds(w) ==
  LET ids == WireTerminalIDs(w)
      End(id) == LET a == WireTerminalAnchor(id) IN IF a \in SceneTerminals THEN a ELSE 0
  IN  [k \in DOMAIN ids |-> End(ids[k])]

\* What becomes of a wire: drawn, or counted as skipped, or of a shape that is
\* not drawn.  Only the first two ends of an unbranched wire matter.
Outcome(w) ==
  LET ends == WireEnds(w)
  IN  CASE SceneTerminals = {} -> "nothing to join"
        [] SceneTerminals # {} /\ IsChain(w) ->
             IF Len(ends) < 2 THEN "UnresolvedAtHeap"
             ELSE IF ends[1] = 0 \/ ends[2] = 0 THEN "MissingFromScene"
             ELSE IF ends[1] = ends[2] THEN "SharedAnchorSkipped"
             ELSE "Rendered"
        [] SceneTerminals # {} /\ IsBranched(w) ->
             IF ends = << >> THEN "UnresolvedAtHeap" ELSE "Rendered"
        [] OTHER -> "raw"

-----------------------------------------------------------------------------

\* Nothing of the heap is lost on the way to the scene and nothing is drawn twice:
\* outside terminals every open entry is a group and every leaf a label, but for
\* the bounds of a group; of what a terminal holds exactly the terminals are
\* drawn, however deep, and the declared ends with no terminal below them.
SceneIsComplete ==
  Done =>
    LET inside == {i \in Indices : \E t \in Above0(up[i]) : IsTerminal(t)}
        holding == {i \in Indices : \E t \in Below0(i) : IsTerminal(t)}
    IN  SceneNodes =
             {Node("terminal", i) : i \in {i \in Indices : IsTerminal(i)}}
        \cup {Node("terminal", i) :
                i \in {i \in inside \ holding : IsPerEndpointCanonical(i)}}
        \cup {Node("group", i) :
                i \in {i \in Indices \ inside : flat[i].scope = "open" /\ ~IsTerminal(i)}}
        \cup {Node("label", i) :
                i \in {i \in Indices \ inside :
                         flat[i].scope = "leaf" /\ (flat[i].tag = "bounds" => up[i] = 0)}}

\* A wire both of whose ends have a canonical declaration in or around a terminal
\* is drawn, or its ends are one terminal: none is lost to an end the scene does
\* not show.
DeclaredWiresAreDrawn ==
  Done => \A w \in Indices :
    LET ids == WireTerminalIDs(w)
        Declared(id) ==
          \E d \in Declarations(id) :
            /\ IsPerEndpointCanonical(d)
            /\ \A e \in Declarations(id) : IsCanonicalDeclaration(e) => e = d
            /\ \E t \in Above0(d) \cup Below0(d) : IsTerminal(t)
    IN  /\ IsChain(w)
        /\ Len(ids) >= 2 /\ Declared(ids[1]) /\ Declared(ids[2])
        => Outcome(w) \in {"Rendered", "SharedAnchorSkipped"}

=============================================================================
