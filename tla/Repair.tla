------------------------------- MODULE Repair -------------------------------
(***************************************************************************)
(* internal/repair: which validator errors repair takes on, and what it    *)
(* does to the file in memory.  Headers and payload regions are mended by  *)
(* writing the file; only the name table is rebuilt here.                  *)
(***************************************************************************)
EXTENDS LvMeta

Repairable ==
  {"header.mismatch", "section.payload.overlap", "section.name_offset.invalid"}

\* Mutant of RebuildFails: a name nobody knows is taken to be empty.
RebuildGuesses(f) ==
  \E s, t \in Named(f) : /\ f.sec[s].nameOff = f.sec[t].nameOff
                         /\ ResolvedName(f, s) # ResolvedName(f, t)

\* rebuildReferencedNames gives up when a name cannot be found, an empty name
\* counting as not found, and when sections disagree about one offset.
RebuildFails(f) ==
  \/ \E s \in Named(f) : ResolvedName(f, s) = NoName
  \/ \E s, t \in Named(f) : /\ f.sec[s].nameOff = f.sec[t].nameOff
                            /\ ResolvedName(f, s) # ResolvedName(f, t)

\* The referenced entries, packed in the order of their first use; every
\* section carries its name itself afterwards.
Rebuilt(f) ==
  LET values == CanonicalValues(f)
      place  == CanonicalPlace(f, f.blocks, values)
  IN  [f EXCEPT
         !.names = [p \in {place[o] : o \in DOMAIN place} |->
                      values[CHOOSE o \in DOMAIN place : place[o] = p]],
         !.sec   = [s \in DOMAIN f.sec |->
                      IF s \in Named(f)
                      THEN [f.sec[s] EXCEPT !.name = values[f.sec[s].nameOff],
                                            !.nameOff = place[f.sec[s].nameOff]]
                      ELSE f.sec[s]]]

RepairRefuses(f) ==
  \/ ErrorCodes(f) = {}
  \/ ~(ErrorCodes(f) \subseteq Repairable)
  \/ "section.name_offset.invalid" \in ErrorCodes(f) /\ RebuildFails(f)

Repaired(f) ==
  IF "section.name_offset.invalid" \in ErrorCodes(f) THEN Rebuilt(f) ELSE f

=============================================================================
