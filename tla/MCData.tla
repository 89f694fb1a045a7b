------------------------------- MODULE MCData -------------------------------
(***************************************************************************)
(* Session on files whose interest is the payloads: sections that share or *)
(* overlap a region of the data section, STRG sections the codec objects   *)
(* to, two of them or none, two VIs, a block type outside printable ASCII, *)
(* and sections the canonical order has nothing to tell apart by.          *)
(***************************************************************************)
EXTENDS SessionRefinesVi, TLC

CONSTANTS vi, a, b, spare, \* section identities
          Tables           \* name tables, with the offsets of vi and a

McSections == {vi, a, b, spare}
McOtherTypes == << "bad1" >>
McUnprintable == {"bad1"}

P(len, val, issues) == [len |-> len, val |-> val, strg |-> issues]
At(off, payload) == [off |-> off, payload |-> payload]

\* The bytes at 4 are the payload of the region at 0 and, at once, the length
\* word of the region at 4: both are always there, used or not.  The numbers
\* follow bytes.Compare.
Regions ==
  { {At(0, P(4, 6, {"overruns"})), At(4, P(4, 2, {}))},
    {At(0, P(4, 7, {"overruns"})), At(4, P(6, 3, {"trailing_bytes"}))} }
LastRegions ==
  { At(12, P(2, 1, {"short"})), At(12, P(5, 4, {"control_chars"})),
    At(12, P(9, 8, {})) }

Desc(t, d) == [type |-> t, index |-> 0, nameOff |-> NoNameOffset, dataOff |-> d]

\* The regions of vi and a overlap or those of a and b are the same.
Image(data, ta, tb, da, table) ==
  [ hdr |-> 1, hdr2 |-> 1,
    blocks |-> IF ta = tb THEN << << vi >>, << b, a >> >>
               ELSE << << b >>, << vi >>, << a >> >>,
    sec |-> (vi :> [Desc("LVSR", 0) EXCEPT !.nameOff = table.vi])
            @@ (a :> [Desc(ta, da) EXCEPT !.nameOff = table.a]) @@ (b :> Desc(tb, 12)),
    data |-> data, tail |-> table.tail, slack |-> << >> ]

Images ==
  { Image(r \cup {l}, ta, tb, da, table) :
      r \in Regions, l \in LastRegions, ta \in {"STRG", "LVSR"},
      tb \in {"STRG", "bad1"}, da \in {4, 12}, table \in Tables }

NoTable == [tail |-> << >>, vi |-> NoNameOffset, a |-> NoNameOffset]

\* No names, or one that is shared.
SoundTables == { NoTable, [tail |-> << 1, 2 >>, vi |-> 0, a |-> 0] }

\* No names, or one that the table does not hold.
DanglingTables == { NoTable, [NoTable EXCEPT !.vi = 0] }

\* Descriptions of one byte, of one control character and of more bytes than
\* the parser reads back.
McDescriptions ==
  { [len |-> 1, val |-> 5, control |-> FALSE],
    [len |-> 1, val |-> 4, control |-> TRUE],
    [len |-> 5, val |-> 9, control |-> FALSE] }

McNames == { << 1 >> }

=============================================================================
