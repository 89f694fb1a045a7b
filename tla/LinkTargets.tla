----------------------------- MODULE LinkTargets -----------------------------
(***************************************************************************)
(* What an entry of a link list refers to: its paths (internal/codecs/pthx)*)
(* and the typed target made from its tail and second path                 *)
(* (internal/codecs/linkobj).                                              *)
(***************************************************************************)
EXTENDS Links

PTH1 == FirstIdent + 4 \* stands for PTH2 as well: one layout
TDCC == FirstIdent + 5
LVCC == FirstIdent + 6
VILB == FirstIdent + 7

-----------------------------------------------------------------------------
\* Paths.

ZeroFill == [ident |-> PTH0, zeroFill |-> TRUE]

\* A PTH0 body: a type value, the number of components, the components.
DecodePTH0(body) ==
  IF Len(body) < 2 THEN {}
  ELSE {[ident |-> PTH0, zeroFill |-> FALSE, tp |-> body[1], components |-> s.items] :
          s \in {r \in Strings(body, 3, body[2]) : r.next = Len(body) + 1}}

\* A PTH1 body: a type ident, then components up to the end.
DecodePTH1(body) ==
  IF Len(body) < 1 THEN {}
  ELSE {[ident |-> PTH1, zeroFill |-> FALSE, tp |-> body[1], components |-> s.items] :
          s \in {r \in UNION {Strings(body, 2, n) : n \in 0..Len(body)} :
                   r.next = Len(body) + 1}}

\* The path at the start of p and how many cells it takes up.
DecodePath(p) ==
  IF Len(p) < PathHead THEN {}
  ELSE IF PathHead + p[2] > Len(p) THEN {}
  ELSE LET body == SubSeq(p, PathHead + 1, PathHead + p[2])
       IN {[path |-> v, size |-> PathHead + p[2]] :
             v \in CASE p[1] = PTH0 /\ p[2] = 0 -> {ZeroFill}
                     [] p[1] = PTH0 /\ p[2] # 0 -> DecodePTH0(body)
                     [] p[1] = PTH1 -> DecodePTH1(body)
                     [] OTHER -> {}}

EncodePTH0(v) ==
  IF v.zeroFill THEN {<< PTH0, 0 >>}
  ELSE {<< PTH0, Len(body) >> \o body :
          body \in IF SomeLonger(v.components, MaxLength) THEN {}
                   ELSE {<< v.tp, Len(v.components) >> \o WriteCuts(v.components, MaxLength)}}

EncodePTH1(v) ==
  {<< PTH1, Len(body) >> \o body :
     body \in IF SomeLonger(v.components, MaxWordLength) THEN {}
              ELSE {<< v.tp >> \o WriteCuts(v.components, MaxWordLength)}}

EncodePath(v) == IF v.ident = PTH0 THEN EncodePTH0(v) ELSE EncodePTH1(v)

-----------------------------------------------------------------------------
\* Targets.

Explicit == WordMod - 1 \* the flag byte 0xff
ExplicitFields == 5
MaxOffsets == 2         \* 65536 in the code

\* The reference behind the flag byte at cell i: packed into it, or five fields
\* after it.
VILinkRef(p, i) ==
  IF i > Len(p) THEN {}
  ELSE IF p[i] # Explicit THEN {[flag |-> p[i], fields |-> << >>, next |-> i + 1]}
  ELSE IF i + ExplicitFields > Len(p) THEN {}
  ELSE {[flag |-> p[i], fields |-> SubSeq(p, i + 1, i + ExplicitFields),
         next |-> i + 1 + ExplicitFields]}

WriteVILinkRef(r) == IF r.fields = << >> THEN << r.flag >> ELSE << Explicit >> \o r.fields

\* Flags, a type, a reference, flags, a counted list of offsets, nothing more.
DecodeTypeDef(ident, body, second) ==
  LET Offsets(d, r) ==
        IF r.next + 1 > Len(body) THEN {}
        ELSE LET n == body[r.next + 1]
             IN IF n > MaxOffsets \/ r.next + 1 + n # Len(body) THEN {}
                ELSE {[ident |-> ident, save |-> body[1], desc |-> d.val, wide |-> d.wide,
                       ref |-> [flag |-> r.flag, fields |-> r.fields],
                       flags |-> body[r.next], offsets |-> Rest(body, r.next + 1),
                       second |-> second]}
  IN IF body = << >> THEN {}
     ELSE UNION {UNION {Offsets(d, r) : r \in VILinkRef(body, d.next)} : d \in VarSize(body, 2)}

EncodeTypeDef(t) ==
  IF ~t.wide /\ t.desc >= HalfWord THEN {}
  ELSE {[body |-> << t.save >> \o (IF t.wide THEN WriteWide(t.desc) ELSE WriteVarSize(t.desc))
                  \o WriteVILinkRef(t.ref) \o << t.flags, Len(t.offsets) >> \o t.offsets,
         second |-> t.second]}

DecodeLibrary(ident, body, second) ==
  IF second # << >> \/ Len(body) # 1 THEN {} ELSE {[ident |-> ident, save |-> body[1]]}

DecodeTarget(ident, body, second) ==
  CASE ident \in {TDCC, LVCC} -> DecodeTypeDef(ident, body, second)
    [] ident = VILB -> DecodeLibrary(ident, body, second)
    [] OTHER -> {[ident |-> ident, body |-> body, second |-> second]}

EncodeTarget(t) ==
  CASE t.ident \in {TDCC, LVCC} -> EncodeTypeDef(t)
    [] t.ident = VILB -> {[body |-> << t.save >>, second |-> << >>]}
    [] OTHER -> {[body |-> t.body, second |-> t.second]}

\* The target of an entry.
Target(e) ==
  DecodeTarget(e.type, e.tail, IF e.secondary = NoPath THEN << >> ELSE e.secondary[1].raw)

=============================================================================
