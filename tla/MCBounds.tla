------------------------------ MODULE MCBounds ------------------------------
(***************************************************************************)
(* Bounds with words of few values and descriptors of one or two bytes.    *)
(***************************************************************************)
EXTENDS Bounds

CONSTANTS SmallWords, FileSizes

McHeaders ==
  {h \in [infoOff : {1, 2, 4}, infoSize : {0, 3, 6, 11}, dataOff : {1, 2}, dataSize : {0, 3}] :
     h.infoOff + h.infoSize <= 15}

\* One and two blocks of one and two sections, empty payloads and ones at and
\* above the cap, files that fit and files that do not.
Lens == {<< 0 >>, << 1 >>, << 2 >>, << 3 >>, << 1, 0 >>, << 2, 1 >>}
Blocks == {<< b >> : b \in Lens} \cup {<< b, c >> : b, c \in Lens}
McLayouts == {[blocks |-> b, names |-> n, tail |-> t] : b \in Blocks, n \in {0, 2}, t \in {0, 1}}

=============================================================================
