------------------------------- MODULE MCDiff -------------------------------
(***************************************************************************)
(* Files for the diff: a description, two types of the connector pane, a   *)
(* list of types in two streams, names, flags, a version, and a block no   *)
(* codec reads; payloads that decode, payloads that do not, for different  *)
(* reasons and for the same one, and equal values stored in different      *)
(* ways.                                                                   *)
(***************************************************************************)
EXTENDS Diff

OneType == << 1, 3, 0, Int8, 0 >>
Packed(form, x) == << Len(x), form, Len(x) >> \o x

McPayloadsOf ==
  [STRG |-> {<< 1, 5 >>, << 1, 5, 0 >>},
   CONP |-> {<< 1 >>, << 2 >>, << >>},
   CPC2 |-> {<< 3 >>},
   LIvi |-> {<< 0, LVIN, 0, 0 >>, << 0, LVIN, 1, 2, TDCC, 0, PTH0, 0, 0 >>},
   VCTP |-> {Packed(OwnForm, OneType), Packed(OtherForm, OneType), Packed(OwnForm, << 0 >>), << 1, 0 >>, << 2, 0 >>,
            << 2, 9 >>},
   LIBN |-> {<< 1, 1, 7 >>, << 2, 1, 7, 0 >>, << 2, 1, 7 >>},
   LVSR |-> {<< 0, 1 >>, << 0, 1, 0, 2 >>},
   vers |-> {<< 1, 0, 0, 0 >>, << 1, 0 >>, << 2, 0 >>, << 1, 0, 9, 0 >>, << 2, 0, 9, 0 >>},
   none |-> {<< 1 >>, << 2 >>}]

Section(i, p) == [index |-> i, name |-> 0, payload |-> p]
Block(type, sections) == [type |-> type, sections |-> sections]
File(blocks) ==
  [header |-> [h \in Headers |-> 0], blocks |-> blocks]

McFiles ==
  {File(<< Block("STRG", << Section(1, << 1, 5 >>) >>),
           Block("CONP", << Section(2, << 1 >>) >>) >>),
   File(<< Block("LIBN", << Section(1, << 1, 1, 7 >>), Section(2, << 1 >>) >>),
           Block("LVSR", << Section(1, << 0, 1 >>) >>) >>),
   File(<< Block("VCTP", << Section(1, << 1, 0 >>) >>),
           Block("none", << Section(1, << 1 >>), Section(1, << 2 >>) >>) >>),
   File(<< Block("vers", << Section(1, << 1, 0 >>), Section(2, << 1, 0, 9, 0 >>) >>) >>),
   File(<< Block("LIvi", << Section(1, << 0, LVIN, 0, 0 >>) >>),
           Block("CONP", << Section(1, << 1 >>) >>), Block("VCTP", << Section(1, Packed(OwnForm, OneType)) >>) >>)}

=============================================================================
