----------------------------- MODULE TypedHeap ------------------------------
(***************************************************************************)
(* The types of the values in a heap (pkg/lvvi: BlockDiagramConstants,     *)
(* FrontPanelTypes, FrontPanelDefaults, HeapDataFill).  A "typeDesc" entry *)
(* says of which type its object is; "value", "default" and "limit"        *)
(* entries hold a literal of that type.  The bytes of these entries are in *)
(* their field data.  The heap numbers types in two ways: literals by the  *)
(* list of top types, limits by the shift of the DTHP section.             *)
(***************************************************************************)
EXTENDS Wires, TypeList

CONSTANTS Descs, Tops, \* the two lists of the VCTP section
          Shift        \* { the shift of the DTHP section }, or {} without one

ASSUME ShiftAssumption == Shift \subseteq Nat /\ Cardinality(Shift) <= 1

IsLeaf(i, tag) == flat[i].scope = "leaf" /\ flat[i].tag = tag

IsTypeDesc(i) == IsLeaf(i, "typeDesc")

DescendantOrSelf(i, ancestor) ==
  LET within[j \in 0 .. Len(flat)] == j # 0 /\ (j = ancestor \/ within[up[j]])
  IN within[i]

-----------------------------------------------------------------------------
(* Literals. *)

\* Mutant of GoverningDesc: only the object's own entries count.
OwnDesc(v) == {i \in 1 .. v - 1 : IsTypeDesc(i) /\ up[i] = up[v]}

\* The entries that may say of which type the literal v is: the last of them does.
GoverningDesc(v) ==
  {i \in 1 .. v - 1 : IsTypeDesc(i) /\ (up[v] # 0 => DescendantOrSelf(i, up[v]))}

\* Its data counts the top types, from 0.
TopOrdinal(i) ==
  IF Len(flat[i].data) \notin 1 .. MaxWord THEN {}
  ELSE {BigEndian(flat[i].data)} \cap (0 .. Len(Tops) - 1)

ConstTypeIndex(v) ==
  IF GoverningDesc(v) = {} THEN {} ELSE {Tops[t + 1] : t \in TopOrdinal(Max(GoverningDesc(v)))}

Resolved(indices) == indices \cap (0 .. Len(Descs) - 1)

Constant(v) ==
  [node |-> v, literals |-> {TypedConst(Descs[i + 1], flat[v].data) : i \in Resolved(ConstTypeIndex(v))},
   index |-> Resolved(ConstTypeIndex(v))]

BlockDiagramConstants == {Constant(v) : v \in {v \in Indices : IsLeaf(v, "value")}}

\* A default that no number fits is tried as flattened data of every cluster type.
FrontPanelDefaults ==
  {[const |-> Constant(v),
    composite |-> IF \E l \in Constant(v).literals : l.match THEN {}
                  ELSE ResolveCompositeDefault(Descs, flat[v].data)] :
     v \in {v \in Indices : IsLeaf(v, "default")}}

FrontPanelTypes ==
  {[node |-> i, parent |-> up[i], top |-> TopOrdinal(i),
    index |-> {Tops[t + 1] : t \in TopOrdinal(i)},
    type |-> {Descs[d + 1].type : d \in Resolved({Tops[t + 1] : t \in TopOrdinal(i)})}] :
     i \in {i \in Indices : IsTypeDesc(i)}}

-----------------------------------------------------------------------------
(* Limits. *)

\* The numbers a type ID can hold: 2^32 in the code, half the width of the longest
\* number of an entry.
IdMod == ByteMod

\* The type an entry names.  No number below 1 is one; the number is cut to the
\* width of an ID only after that was looked at.
TypeNumber(i) == {n % IdMod : n \in {m \in SignExtendBE(flat[i].data) : m >= 1}}

\* The number in the first typeDesc entry beside v, whatever its scope.
TypeDescSibling(v) ==
  IF up[v] = 0 THEN {}
  ELSE LET beside == {c \in ToSet(down[up[v]]) : flat[c].tag = "typeDesc"}
       IN IF beside = {} THEN {} ELSE TypeNumber(First(beside))

\* The numbers count from 1, behind the shift.
Shifted(numbers) == Resolved({s + n - 1 : s \in Shift, n \in numbers})
LimitTypeIndex(v) == Shifted(TypeDescSibling(v))

HeapDataFill(v) ==
  [id |-> TypeDescSibling(v), index |-> LimitTypeIndex(v),
   fill |-> {DataFill(Descs[i + 1].type, flat[v].data) : i \in LimitTypeIndex(v)}]

-----------------------------------------------------------------------------
(* What the lookups promise. *)

\* The innermost scope of the stream around entry i, 0 for none.
ScopeAround(i) ==
  LET around == {j \in Indices : Encloses(j, i)} IN IF around = {} THEN 0 ELSE Max(around)

\* The types named since the object of entry v began, and those its object names.
NamedBefore(v) == {i \in ScopeAround(v) + 1 .. v - 1 : IsTypeDesc(i)}
NamedBeside(v) ==
  {i \in Indices : flat[i].tag = "typeDesc" /\ ScopeAround(i) = ScopeAround(v)}

\* The ID an entry names by the code as it is: the number it holds, if that is at
\* least 1, cut to the width of an ID.  A number too large for an ID, which no comment
\* speaks of, names the type of a small one, or ID 0, whose type is the one before
\* those of the heap.
NamedId(i) == {n % IdMod : n \in {m \in SignExtendBE(flat[i].data) : m >= 1}}

\* A literal is of the type named last before it since its object began, be it in
\* an object inside that has ended, and never of a type named outside.  A limit
\* is of the type its object names first, behind or before it, and of no object
\* inside.
TypesComeFromOwnObject ==
  Done => \A v \in Indices :
    /\ IsLeaf(v, "value") \/ IsLeaf(v, "default")
       => Constant(v).index =
            IF NamedBefore(v) = {} THEN {}
            ELSE Resolved(UNION {t.index :
                            t \in {t \in FrontPanelTypes : t.node = Max(NamedBefore(v))}})
    /\ IsLeaf(v, "limit")
       => HeapDataFill(v).index =
            IF ScopeAround(v) = 0 \/ NamedBeside(v) = {} THEN {}
            ELSE Shifted(NamedId(Min(NamedBeside(v))))

=============================================================================
