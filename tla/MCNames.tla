------------------------------ MODULE MCNames -------------------------------
(***************************************************************************)
(* Session on files whose interest is the name table: three sections, the  *)
(* VI's among them, that share, overlap or miss names in every way a short *)
(* table allows.                                                           *)
(***************************************************************************)
EXTENDS SessionRefinesVi, TLC

CONSTANTS vi, icon, lib, strg \* section identities

McSections == {vi, icon, lib, strg}

\* Tables with one, two and three names, with a name inside another, with a
\* gap and with a raw tail, depending on the offsets that are used.
SomeTails == { << 0, 0, 0 >>, << 1, 1, 0 >>, << 1, 0, 1 >>, << 2, 1, 1 >>,
               << 0, 1, 2, 0 >> }

\* Tables a few of the offsets lie behind.
ShortTails == { << 1, 1 >>, << 0, 0 >>, << 1, 1, 0 >>, << 0, 2, 1 >>, << 2, 1, 1 >> }

Desc(t, i, n, d) == [type |-> t, index |-> i, nameOff |-> n, dataOff |-> d]
Data(o, v) == [off |-> o, payload |-> [len |-> 0, val |-> v, strg |-> {"short"}]]

\* Canonical order differs from the parsed one for blocks and for sections.
Image(tail, slack, a, b, c) ==
  [ hdr |-> 1, hdr2 |-> 1,
    blocks |-> << << icon, lib >>, << vi >> >>,
    sec |-> (vi :> Desc("LVSR", 0, a, 0)) @@ (icon :> Desc("ICON", 1, b, 4))
            @@ (lib :> Desc("ICON", 0, c, 8)),
    data |-> {Data(0, 1), Data(4, 2), Data(8, 3)},
    tail |-> tail, slack |-> slack ]

ImagesOf(tails, slacks, offsets) ==
  {Image(t, z, a, b, c) : t \in tails, z \in slacks,
                          a, b \in offsets \cup {NoNameOffset},
                          c \in {NoNameOffset, 0}}

Strictly(images) == {i \in images : ~ParseFails(i, TRUE)}

\* Damaged files: offsets behind the table, entries that cross its end, a byte
\* behind the info section, headers that differ, and all of these together.
DamagedImages ==
  LET images == ImagesOf(ShortTails, { << >> }, {0, 2, 3})
                  \cup ImagesOf({ << 1, 1, 0 >> }, { << 1 >> }, {0, 2, 3})
  IN  images \cup {[i EXCEPT !.hdr2 = 2] : i \in images}

Images == ImagesOf(SomeTails, { << >> }, {0, 1, 2}) \cup DamagedImages

McOtherTypes == << >>

ShortNames == { << >>, << 1 >>, << 2, 1 >> }

\* The shortest name, one of maximal length and one that is too long.
SomeNames == { << >>, << 2, 1 >>, << 0, 0, 0, 0 >> }

=============================================================================
