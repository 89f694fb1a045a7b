------------------------------- MODULE LvMeta -------------------------------
(***************************************************************************)
(* The Tier 2 metadata edits of pkg/lvmeta on a file in memory: SetName,   *)
(* SetDescription and the structural gate both pass through.  An edit is   *)
(* given by the reason it is refused for, if any, and by the edited file.  *)
(***************************************************************************)
EXTENDS Rsrc

CONSTANT SpareSection \* the identity a new STRG section gets

ASSUME SpareAssumption == SpareSection \in Sections

OfType(f, t) == {s \in DOMAIN f.sec : f.sec[s].type = t}
Only(S) == CHOOSE s \in S : TRUE

-----------------------------------------------------------------------------
(***************************************************************************)
(* The structural gate: serialize, parse leniently, validate.              *)
(***************************************************************************)

\* The file read back from what Serialize makes of it: none when it cannot be
\* serialized or not be read.
RoundTrip(f) ==
  IF SerializeFails(f) THEN {}
  ELSE {Parse(img) : img \in {i \in {Serialize(f)} : ~ParseFails(i, FALSE)}}

\* Mutant of GateRejects: an edited file that cannot be read back passes.
AcceptsUnreadable(before, after) ==
  \E old \in RoundTrip(before) : \E new \in RoundTrip(after) :
     ~(ErrorCodes(new) \subseteq ErrorCodes(old))

\* The gate rejects what does not round-trip, and every error code that the
\* file did not have before.  Without a baseline it lets everything pass.
GateRejects(before, after) ==
  \E old \in RoundTrip(before) : \A new \in RoundTrip(after) :
     ~(ErrorCodes(new) \subseteq ErrorCodes(old))

-----------------------------------------------------------------------------
(***************************************************************************)
(* SetName.                                                                *)
(***************************************************************************)

\* requireSingleSectionByType.
TargetRefusal(f, t) ==
  CASE OfType(f, t) = {}                -> "target_missing"
    [] Cardinality(OfType(f, t)) > 1    -> "target_ambiguous"
    [] OTHER                            -> "none"

\* Mutant of NameRefusal: no bound on the length.
AnyLength(f, n) == TargetRefusal(f, "LVSR")

NameRefusal(f, n) ==
  IF Len(n) > MaxNameLen THEN "name_too_long" ELSE TargetRefusal(f, "LVSR")

\* The section already carries the name, and is anchored to an offset.
NameUnchanged(f, s, n) == f.sec[s].name = n /\ s \in Named(f)

Carriers(f, n) == {o \in DOMAIN f.names : f.names[o] = n}
FirstCarrier(f, n) ==
  CHOOSE o \in Carriers(f, n) : \A p \in Carriers(f, n) : o <= p

\* Mutant of OwnsEntry: other sections may refer to the entry.
EntryExists(f, s) == f.sec[s].nameOff \in DOMAIN f.names

\* The entry exists and no other section refers to it.
OwnsEntry(f, s) ==
  /\ f.sec[s].nameOff \in DOMAIN f.names
  /\ Users(f, f.sec[s].nameOff) = {s}

NextFreeNameOffset(f) == TableSize(f.names, [o \in DOMAIN f.names |-> o])

PointAt(f, s, n, o, names) ==
  [ hdr |-> f.hdr, hdr2 |-> f.hdr2, blocks |-> f.blocks, rawTail |-> f.rawTail,
    names |-> names,
    sec   |-> [f.sec EXCEPT ![s] = [@ EXCEPT !.name = n, !.nameOff = o]] ]

WithEntry(names, o, n) ==
  [p \in DOMAIN names \cup {o} |-> IF p = o THEN n ELSE names[p]]

\* Reuse an entry that carries the name, else rewrite the section's own entry,
\* else append one behind all others.
Repointed(f, s, n) ==
  IF Carriers(f, n) # {}
  THEN PointAt(f, s, n, FirstCarrier(f, n), f.names)
  ELSE LET o == IF OwnsEntry(f, s) THEN f.sec[s].nameOff ELSE NextFreeNameOffset(f)
       IN  PointAt(f, s, n, o, WithEntry(f.names, o, n))

NameEdited(f, n) ==
  LET s == Only(OfType(f, "LVSR"))
  IN  IF NameUnchanged(f, s, n) THEN f ELSE Repointed(f, s, n)

-----------------------------------------------------------------------------
(***************************************************************************)
(* SetDescription.                                                         *)
(***************************************************************************)

\* A text is known by its length and by whether it has control characters.
Description == [len : 0 .. MaxLen - 4, val : Nat, control : BOOLEAN]

\* strg.Codec.Encode: a length word and the text.
Encode(desc) ==
  [ len |-> 4 + desc.len, val |-> desc.val,
    strg |-> IF desc.control THEN {"control_chars"} ELSE {} ]

\* What stands in the way of a description: two STRG sections, an old payload
\* the codec cannot decode and, in strict mode, a warning that is new.
DescriptionRefusal(f, desc, strict) ==
  LET old == IF OfType(f, "STRG") = {} THEN {}
             ELSE f.sec[Only(OfType(f, "STRG"))].payload.strg
  IN  CASE Cardinality(OfType(f, "STRG")) > 1     -> "target_ambiguous"
        [] old \cap {"short", "overruns"} # {}    -> "codec_decode"
        [] strict /\ ~(Encode(desc).strg \subseteq old) -> "post_edit_warning"
        [] OTHER                                  -> "none"

ReplacePayload(f, s, payload) ==
  [ hdr |-> f.hdr, hdr2 |-> f.hdr2, blocks |-> f.blocks, rawTail |-> f.rawTail,
    names |-> f.names, sec |-> [f.sec EXCEPT ![s] = [@ EXCEPT !.payload = payload]] ]

\* createSTRGSection: a block of its own behind the others; its offset in the
\* data section is left at zero until the file is written.
AppendStrg(f, payload) ==
  [ hdr |-> f.hdr, hdr2 |-> f.hdr2, rawTail |-> f.rawTail, names |-> f.names,
    blocks |-> Append(f.blocks, << SpareSection >>),
    sec    |-> [s \in DOMAIN f.sec \cup {SpareSection} |->
                  IF s \in DOMAIN f.sec THEN f.sec[s]
                  ELSE [ type |-> "STRG", index |-> 0, nameOff |-> NoNameOffset,
                         dataOff |-> 0, name |-> NoName, payload |-> payload ]] ]

\* No section has the identity of the one to come.
SpareIsFree(f) ==
  SpareSection \in DOMAIN f.sec => f.sec[SpareSection].type = "STRG"

DescriptionEdited(f, desc) ==
  IF OfType(f, "STRG") = {} THEN AppendStrg(f, Encode(desc))
  ELSE ReplacePayload(f, Only(OfType(f, "STRG")), Encode(desc))

=============================================================================
