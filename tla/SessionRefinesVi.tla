-------------------------- MODULE SessionRefinesVi --------------------------
(***************************************************************************)
(* A session, seen through what a caller can tell of the file in memory    *)
(* and of the file on disk, is a behaviour of module Vi.                   *)
(***************************************************************************)
EXTENDS Session

\* What no file has for its contents: there the header is a natural number.
Nothing == [hdr |-> -1]
Broken == [hdr |-> -2]

Library ==
  INSTANCE Vi WITH
    Names    <- NewNames,
    Payloads <- {Encode(d) : d \in Descriptions},
    mem      <- IF mode = "closed" THEN Nothing ELSE Contents(file),
    store    <- IF ParseFails(disk, FALSE) THEN Broken ELSE Contents(Parse(disk))

\* Opened strictly, a file behaves like the abstract one of module Vi: what is
\* saved is what was edited, and nothing else has changed when it is opened
\* again.
ImplementsLibrary == Library!Spec

=============================================================================
