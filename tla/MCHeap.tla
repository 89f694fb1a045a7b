------------------------------- MODULE MCHeap -------------------------------
(***************************************************************************)
(* Streams for the walk: a wire with its list of two IDs, before or behind *)
(* up to MaxFree other entries in any order; objects with declarations of  *)
(* types, literals and limits in any order; and a text in scopes of every  *)
(* kind with roles before and behind it.                                   *)
(***************************************************************************)
EXTENDS Scene, Texts

CONSTANTS MaxFree, MaxTyped, c

E(s, t) == [scope |-> s, tag |-> t, class |-> None, id |-> None, indexed |-> FALSE, data |-> << >>]
With(e, id, indexed) == [e EXCEPT !.id = id, !.indexed = indexed]

Close    == E("close", "other")
Terminal == E("open", "terminal")
Object   == [E("open", "other") EXCEPT !.class = c]
End(id)  == With(E("open", "element"), id, TRUE)
Early(id) == With(E("open", "element"), id, FALSE)
Stub(id) == With(E("leaf", "element"), id, FALSE)
WireTable(x) == [E("leaf", "wire") EXCEPT !.data = x]

Free == {Close, Terminal, Object, End(1), End(2), Early(1), Stub(1),
         E("leaf", "bounds")}

Wire(x, ids) ==
  << E("open", "element"), WireTable(x), E("open", "termList") >>
  \o [k \in DOMAIN ids |-> Stub(ids[k])] \o << Close, Close >>

Straight == << 2, AutoChain >>

\* A line, an elbow up and one far down, two elbows, a way back, a drawn wire,
\* two and three branches, a branch cut off, a comb, an unknown mode, half a head.
Shapes ==
  {Straight, << 4, AutoChain, 1, 0, 2, 1 >>, << 4, AutoChain, 0, 0, 2, Escape, 1, 0 >>,
   << 4, AutoChain, 2, 0, 2, 1 >>, << 5, AutoChain, 0, 0, 2, 1, 1 >>,
   << 6, AutoChain, 0, 1, 1, 0, Margin, Margin, 1, 2 >>, << 3, ManualChain, 1 >>,
   << 6, Tree >> \o Zeros(10), << 7, Tree >> \o Zeros(12), << 6, Tree >> \o Zeros(8),
   << 8, Tree >> \o Zeros(14), << 2, 1 >>, << 2 >>}

FreeStreams == UNION {[1 .. n -> Free] : n \in 0 .. MaxFree}

Typed(s, t, data) == [E(s, t) EXCEPT !.data = data]
TypedEntries ==
  {E("open", "other"), Close, Typed("open", "typeDesc", << 1 >>),
   Typed("leaf", "value", << 0, 1 >>), Typed("leaf", "limit", << 3 >>)}
  \cup {Typed("leaf", "typeDesc", n) : n \in {<< 1 >>, << 3 >>, << 0, 2 >>, << 1, 0 >>}}

\* Numbers of types in one cell and in two, below 1, in the list, behind it, and too
\* large for an ID.
TypeNumbers == UNION {[1 .. n -> 0 .. ByteMod - 1] : n \in 0 .. MaxWord + 1}
LimitOf(n) ==
  << E("open", "other"), Typed("leaf", "typeDesc", n), Typed("leaf", "limit", << 3 >>), Close >>

McDescs == << [type |-> UInt16, label |-> << >>, inner |-> << >>],
              [type |-> Int8, label |-> << >>, inner |-> << >>],
              [type |-> Cluster, label |-> << >>, inner |-> << 2, 1, 1 >>] >>
McTops == << 1, 0, 2, 9 >>

Role(data) == Typed("leaf", "partId", data)
Surroundings == {E("open", "other"), Close, Role(<< 1 >>), Role(<< 0, 1, 2 >>)}
                \cup {[E("open", "other") EXCEPT !.class = k] : k \in {c, TextHair, MultiLabel}}
Run == [E("open", "other") EXCEPT !.class = FontRun]
TextEntries == {Typed("leaf", "text", << 1 >>), Typed("open", "nodeName", << >>)}
          \cup {Typed("leaf", "buf", b) : b \in {<< 1, 2 >>, << 0, 1, 1 >>, << 0, 2, 1 >>}}
Behind == {<< >>, << Role(<< 1, 3 >>) >>, << Close, Role(<< 2 >>) >>}

McStreams ==
       {f \o Wire(Straight, << 1, 2 >>) : f \in FreeStreams}
  \cup {Wire(Straight, << 1, 2 >>) \o f : f \in FreeStreams}
  \cup {<< Terminal, End(1), Close, Close >> \o Wire(x, ids) :
          x \in Shapes, ids \in {<< >>, << 1 >>, << 1, 2 >>}}
  \cup {Append(f, Broken) : f \in [1 .. 2 -> Free]}
  \cup UNION {[1 .. n -> TypedEntries] : n \in 0 .. MaxTyped}
  \cup {<< E("open", "other"), Typed("leaf", "typeDesc", << n >>),
          Typed("leaf", "default", b), Close >> : n \in 1 .. 3, b \in {<< >>, << 1 >>, << 0, 1 >>}}
  \cup {LimitOf(n) : n \in TypeNumbers}
  \cup {Append(f, t) \o g : f \in UNION {[1 .. n -> Surroundings] : n \in 0 .. MaxFree},
                            t \in TextEntries, g \in Behind}
  \cup {<< Run >> \o Append(f, t) :
          f \in UNION {[1 .. n -> Surroundings] : n \in 0 .. 2}, t \in TextEntries}

McEntries == Free \cup {Typed("leaf", "typeDesc", n) : n \in TypeNumbers}
              \cup TypedEntries \cup {Stub(2), E("open", "element"), E("open", "termList")}
             \cup {WireTable(x) : x \in Shapes}
             \cup Surroundings \cup TextEntries \cup {Run} \cup {Role(<< 1, 3 >>), Role(<< 2 >>)}
             \cup {Typed("leaf", "default", b) : b \in {<< >>, << 1 >>, << 0, 1 >>}}

=============================================================================
