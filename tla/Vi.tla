--------------------------------- MODULE Vi ---------------------------------
(***************************************************************************)
(* What the library promises about a file, without bytes, offsets or name  *)
(* tables: a file is a set of sections, each with a type, a name and a     *)
(* payload.  A rename changes the name of the one LVSR section, a          *)
(* description is the payload of the one STRG section, saving stores what  *)
(* is in memory and opening fetches what was stored.                       *)
(***************************************************************************)
CONSTANTS
  Nothing, \* no file in memory
  Broken,  \* the store holds nothing that can be read
  Names,
  Payloads

VARIABLES mem, store

vars == << mem, store >>

OfType(t) == {s \in DOMAIN mem.sec : mem.sec[s].type = t}

Init == mem = Nothing

\* Opening fetches the store, or fails.
Open ==
  /\ mem' \in {store, Nothing} \ {Broken}
  /\ UNCHANGED store

Rename ==
  /\ mem # Nothing
  /\ \E s \in OfType("LVSR"), n \in Names :
       /\ OfType("LVSR") = {s}
       /\ mem' = [mem EXCEPT !.sec[s].name = n]
  /\ UNCHANGED store

Describe ==
  /\ mem # Nothing
  /\ \E p \in Payloads :
       \/ \E s \in OfType("STRG") :
            /\ OfType("STRG") = {s}
            /\ mem' = [mem EXCEPT !.sec[s].payload = p]
       \/ /\ OfType("STRG") = {}
          /\ DOMAIN mem'.sec \ DOMAIN mem.sec # {}
          /\ mem'.hdr = mem.hdr
          /\ \A s \in DOMAIN mem.sec :
               s \in DOMAIN mem'.sec /\ mem'.sec[s] = mem.sec[s]
          /\ \E s \in DOMAIN mem'.sec :
               /\ DOMAIN mem'.sec = DOMAIN mem.sec \cup {s}
               /\ mem'.sec[s].type = "STRG" /\ mem'.sec[s].payload = p
  /\ UNCHANGED store

Save ==
  /\ mem # Nothing
  /\ store' = mem
  /\ UNCHANGED mem

Next == Open \/ Rename \/ Describe \/ Save

Spec == Init /\ [][Next]_vars

=============================================================================
