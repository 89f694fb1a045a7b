------------------------------ MODULE MCViewer ------------------------------
(***************************************************************************)
(* Viewer with two files that fit and one that does not.                   *)
(***************************************************************************)
EXTENDS Viewer

CONSTANTS f1, f2, big, fp, visual, tree \* model values

=============================================================================
