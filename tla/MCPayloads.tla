----------------------------- MODULE MCPayloads -----------------------------
(***************************************************************************)
(* Instance for TLC: the families of payloads, the cells they consist of.  *)
(***************************************************************************)
EXTENDS Payloads

Cell(S) == {<< x >> : x \in S}

\* Types: numbers, one with a label, a string, a variant, clusters of any types.
TypePieces ==
  {<< 3, 0, t >> : t \in {Int8, UInt16, Boolean, String, Variant}}
  \cup {<< 5, 1, Int16, 1, FirstPrintable >>}
  \cup {<< 4 + Len(m), 0, Cluster, Len(m) >> \o m : m \in {<< >>, << 0 >>, << 0, 1 >>, << 2, 0 >>}}

\* Lists of links: a whole entry, the start of one, the start of a path.
Entry == << 2, TDCC, 0, PTH0, 0 >>
LinkLists == {Link(n) : n \in DOMAIN LinkCodecs}

McEntryHeads ==
  {<< s, a + t[1], t[2] >> : s \in {0, 2, 5, VarLength}, a \in {0, ScopeMod},
                             t \in {<< 1, 1 >>, << 2, MaxRawTag >>}}

\* Chains, the start of a way back up or down, and trees.
McWireHeads ==
  [chains |-> {2, 6} \X {AutoChain, ManualChain, 1},
   waysBack |-> {<< 6, AutoChain, x, 1, 1 - x, 0, Margin, Margin >> : x \in 0..1},
   trees |-> (5..8) \X {Tree}]

McBlobs == UNION {[1..n -> {0, 1, 3}] : n \in 0..3}

McFamilies ==
  [fixed |-> [codecs |-> {MUID, VPDP, FPSE, BDSE, RTSG, HIST, BDPW, CONP, CPC2},
              pieces |-> Cell({0, 1}), max |-> 4],
   icon |-> [codecs |-> {ICON, ICL4, ICL8}, pieces |-> Cell({0, 1, 6, 15}), max |-> 4],
   list |-> [codecs |-> {FPEX, BDEX, LIBN, VITS, STRG, LVSR}, pieces |-> Cell({0, 1, 2}), max |-> 6],
   slice |-> [codecs |-> {DTHP}, pieces |-> Cell({0, 1, 7, 8, 9, 15}), max |-> 5],
   fonts |-> [codecs |-> {FTAB}, pieces |-> Cell({0, 1, 2, 6}), max |-> 8],
   version |-> [codecs |-> {VERS}, pieces |-> Cell({0, 1, 2, 15}), max |-> 6],
   packed |-> [codecs |-> {VCTP, FPHB, BDHB}, pieces |-> Cell({0, 1, 2, 3}), max |-> 7],
   paths |-> [codecs |-> {}, pieces |-> Cell({0, 1, 2, 3}) \cup {<< PTH0 >>, << PTH1 >>}, max |-> 6],
   targets |-> [codecs |-> {}, pieces |-> Cell({0, 1, 8}) \cup {<< Explicit >> \o Zeros(ExplicitFields)},
                max |-> 10],
   records |-> [codecs |-> {}, pieces |-> Cell({0, 1, 2, 3, 5, HalfWord}), max |-> 6],
   types |-> [codecs |-> {}, pieces |-> TypePieces, max |-> 15],
   entries |-> [codecs |-> {}, pieces |-> Cell({0, 1, 4, 5, 6, 7}) \cup {<< VarLength, 0, 1 >>},
               max |-> 6],
   chains |-> [codecs |-> {}, pieces |-> Cell({0, 1, Escape}), max |-> 6],
   waysBack |-> [codecs |-> {}, pieces |-> Cell(0..Escape), max |-> 3],
   trees |-> [codecs |-> {}, pieces |-> {<< 1 >>, << 0, 1 >>, Zeros(6)}, max |-> 15],
   links |-> [codecs |-> LinkLists,
              pieces |-> {<< 0 >>, << 1 >>, << 2, TDCC >>, << PTH0, 0 >>, << PTH0, 1 >>, Entry},
              max |-> 10],
   decoys |-> [codecs |-> LinkLists, pieces |-> {<< 0 >>, << 2, TDCC >>, Entry}, max |-> 14]]
=============================================================================
