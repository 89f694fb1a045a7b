------------------------------ MODULE Session -------------------------------
(***************************************************************************)
(* A program that uses the library on one file: it opens the file, edits   *)
(* it in memory, writes it back and opens it again, in any order.  The     *)
(* file on disk is an image; the file in memory keeps the offsets it was   *)
(* parsed with, however often it is edited and written.                    *)
(***************************************************************************)
EXTENDS LvMeta

CONSTANTS
  InitImages,   \* the images the disk may start with
  NewNames,     \* names a caller asks for, too long ones included
  Descriptions, \* descriptions a caller asks for
  OpenModes,    \* subset of {"strict", "lenient"}
  MaxTail       \* bound on the bytes behind the section table

VARIABLES
  disk, \* the image on disk
  mode, \* "closed", or the mode the file in memory was opened and is edited in
  file, \* the file in memory
  last  \* how the last call ended: "ok" or the error it returned

vars == << disk, mode, file, last >>

EmptyFile ==
  [ hdr |-> 0, hdr2 |-> 0, blocks |-> << >>, rawTail |-> << >>,
    names |-> [o \in {} |-> << >>], sec |-> [s \in {} |-> << >>] ]

Init ==
  /\ disk \in InitImages
  /\ mode = "closed"
  /\ file = EmptyFile
  /\ last = "ok"

-----------------------------------------------------------------------------
\* Open: a failed parse leaves the caller without a file.
Open(m) ==
  /\ UNCHANGED disk
  /\ \/ /\ ParseFails(disk, m = "strict")
        /\ mode' = "closed" /\ file' = EmptyFile /\ last' = "parse"
     \/ /\ ~ParseFails(disk, m = "strict")
        /\ mode' = m /\ file' = Parse(disk) /\ last' = "ok"

\* An edit that is refused before it touches the file.
Refuse(err) ==
  /\ err # "none"
  /\ last' = err
  /\ UNCHANGED << disk, mode, file >>

\* An edit that goes through the structural gate.
Apply(after) ==
  /\ UNCHANGED << disk, mode >>
  /\ LET rejected == GateRejects(file, after)
     IN  /\ file' = IF rejected THEN file ELSE after
         /\ last' = IF rejected THEN "structural" ELSE "ok"

Rename(n) ==
  /\ mode # "closed"
  /\ \/ Refuse(NameRefusal(file, n))
     \/ /\ NameRefusal(file, n) = "none"
        /\ \E after \in {NameEdited(file, n)} : Apply(after)

Describe(d) ==
  /\ mode # "closed"
  /\ LET err == DescriptionRefusal(file, d, mode = "strict")
     IN  \/ Refuse(err)
         \/ /\ err = "none"
            /\ \E after \in {DescriptionEdited(file, d)} : Apply(after)

\* WriteToFile and WriteCanonicalToFile: nothing is written when serializing
\* fails.
Put(fails, img) ==
  /\ mode # "closed"
  /\ UNCHANGED << mode, file >>
  /\ \/ fails /\ last' = "serialize" /\ UNCHANGED disk
     \/ ~fails /\ Len(img.tail) <= MaxTail /\ last' = "ok" /\ disk' = img

Write == Put(SerializeFails(file), Serialize(file))
WriteCanonical == Put(SerializeCanonicalFails(file), SerializeCanonical(file))

Next ==
  \/ \E m \in OpenModes : Open(m)
  \/ \E n \in NewNames : Rename(n)
  \/ \E d \in Descriptions : Describe(d)
  \/ Write
  \/ WriteCanonical

Spec == Init /\ [][Next]_vars

-----------------------------------------------------------------------------
(***************************************************************************)
(* Types.                                                                  *)
(***************************************************************************)

Outcomes ==
  { "ok", "parse", "serialize", "structural", "name_too_long", "target_missing",
    "target_ambiguous", "codec_decode", "post_edit_warning" }

\* Every variable keeps its type: in particular each offset a writer lays out
\* and each byte of the name table it builds is one the format can hold.
TypeOK ==
  /\ IsImage(disk)
  /\ mode \in {"closed", "strict", "lenient"}
  /\ IsFile(file)
  /\ last \in Outcomes

ASSUME InitImagesAssumption == \A i \in InitImages : IsImage(i) /\ SpareIsFree(i)
ASSUME NewNamesAssumption == NewNames \subseteq Seq(Byte)
ASSUME DescriptionsAssumption == Descriptions \subseteq Description
ASSUME OpenModesAssumption == OpenModes \subseteq {"strict", "lenient"}

-----------------------------------------------------------------------------
(***************************************************************************)
(* Names in memory.                                                        *)
(***************************************************************************)

Resolved(f) ==
  \A s \in Named(f) : /\ f.sec[s].nameOff \in DOMAIN f.names
                      /\ f.names[f.sec[s].nameOff] = f.sec[s].name

\* In a file opened strictly, every section that has a name offset finds its
\* own name behind it, through any sequence of edits: reusing an entry,
\* rewriting one in place and appending one never leave a section with a name
\* the table does not hold (parser.go sets Section.Name once, name.go edits the
\* name and the table separately).
NamesResolve == mode = "strict" => Resolved(file)

\* SetName "renames the VI ... while preserving every other section's name
\* references" (pkg/lvmeta/name.go:18-19): whatever entries the sections share,
\* no section but the VI's changes the name it resolves to.
OnlyTargetRenamed ==
  [][\A n \in NewNames : Rename(n) =>
       \A s \in DOMAIN file.sec :
         file.sec[s].type # "LVSR" => ResolvedName(file', s) = ResolvedName(file, s)
    ]_vars

\* The same for a session that opens files strictly only.
OnlyTargetRenamedStrict ==
  [][mode = "strict" => \A n \in NewNames : Rename(n) =>
       \A s \in DOMAIN file.sec :
         file.sec[s].type # "LVSR" => ResolvedName(file', s) = ResolvedName(file, s)
    ]_vars

-----------------------------------------------------------------------------
(***************************************************************************)
(* Writing and reading back.                                               *)
(***************************************************************************)

\* The images the two writers would produce now.
Written ==
  IF mode = "closed" THEN {}
  ELSE (IF SerializeFails(file) THEN {} ELSE {Serialize(file)})
       \cup (IF SerializeCanonicalFails(file) THEN {} ELSE {SerializeCanonical(file)})

\* Whatever a session has done to a file, what either writer makes of it opens
\* strictly and holds the same sections, names and payloads, although names
\* are found again by offset only and the writers move them
\* (serializer.go:serializeNamesPreserving, serializeNamesCanonical).  Only a
\* lenient session can bring a payload past the gate that the parser refuses
\* to read (WhatIsWrittenOpens).
RewriteKeepsContents ==
  mode = "strict" \/ Fits(file) => \A img \in Written :
    /\ ~ParseFails(img, TRUE)
    /\ \A f \in {Parse(img)} : Contents(f) = Contents(file)

IsSuffixOf(a, b) ==
  Len(a) <= Len(b) /\ SubSeq(b, Len(b) - Len(a) + 1, Len(b)) = a

\* "Opaque RawTail bytes are still preserved" (docs/safety-model.md:14-15):
\* after a rewrite the raw tail still ends in the bytes it had, although the
\* parser decides anew where it starts.
RawTailKept ==
  \A img \in Written : IsSuffixOf(file.rawTail, Parse(img).rawTail)

\* The writers mend everything the validator objects to, except the types of
\* blocks, which they copy.
WrittenValidates ==
  \A img \in Written : \A f \in {Parse(img)} :
    ErrorCodes(f) \subseteq {"block.type.non_printable"}

NoMaxName(f) == \A o \in DOMAIN f.names : Len(f.names[o]) < MaxNameLen

\* Rewriting what was just rewritten changes no length: names an edit has left
\* without a user end up in the raw tail or in a gap once, not once per write.
\* Files with a name of maximal length are the exception.
RewriteStable ==
  \A img \in Written : \A f \in {Parse(img)} :
    NoMaxName(file) => Len(Serialize(f).tail) = Len(img.tail)

\* "Deterministic canonical layout" (docs/cli.md:73): canonicalizing a
\* canonical image gives the same image, byte for byte.
CanonicalStable ==
  mode # "closed" /\ ~SerializeCanonicalFails(file) /\ NoMaxName(file) =>
    \A img \in {SerializeCanonical(file)} : \A f \in {Parse(img)} :
      ~SerializeCanonicalFails(f) /\ SerializeCanonical(f) = img

\* The structural gate stops a description the parser would refuse to read
\* back, and no edit but that: a rename always passes (post_edit.go).  There is
\* no gate for a file that could not be read back before.
GateStopsOversizeOnly ==
  [][ /\ \A n \in NewNames : Rename(n) => last' # "structural"
      /\ \A d \in Descriptions : Describe(d) =>
           /\ last' = "structural" => Encode(d).len > MaxPayload
           /\ last' = "ok" /\ Fits(file) /\ ~SerializeFails(file) =>
                Encode(d).len <= MaxPayload
    ]_vars

-----------------------------------------------------------------------------
(***************************************************************************)
(* The validator on a file just opened.                                    *)
(***************************************************************************)

Readable == ~ParseFails(disk, FALSE)

\* The sections whose name offset the parser records an issue for.
BadlyNamed(img) ==
  {s \in DOMAIN img.sec :
     img.sec[s].nameOff # NoNameOffset /\ BadName(img, img.sec[s].nameOff)}

\* Each issue a strict open refuses a file for, the validator reports on the
\* leniently opened file, and of each section concerned, although the issues the
\* parser recorded are dropped on the way to lvrsrc.File
\* (pkg/lvrsrc/lvrsrc.go:fromWireFile); and it reports none the parser did not meet.
ValidatorFindsParseIssues ==
  Readable =>
    LET f == Parse(disk)
    IN  /\ "header.mismatch" \in ErrorCodes(f) <=> disk.hdr # disk.hdr2
        /\ "section.name_offset.invalid" \in ErrorCodes(f) <=> BadlyNamed(disk) # {}
        /\ DanglingSections(f) = BadlyNamed(disk)

\* Comparing neighbours only misses no overlap (validate.go:185-209).
OverlapFound ==
  Readable =>
    LET f == Parse(disk)
    IN  NeighboursOverlap(f) <=>
          \E s, t \in DOMAIN f.sec :
            /\ s # t
            /\ f.sec[s].dataOff < RegionEnd(f.sec[t])
            /\ f.sec[t].dataOff < RegionEnd(f.sec[s])

-----------------------------------------------------------------------------
(***************************************************************************)
(* Statements of the code and the documents the code does not keep.        *)
(***************************************************************************)

\* "all Tier 2 gates (codec tier, WriteVersions, post-edit validate, ...) apply"
\* (pkg/lvmeta/description.go:28-29): what an edited file is written to can be
\* opened again.  The gate is skipped while the file cannot be serialized, and
\* an edit that mends this does not look at the payloads let through before.
WhatIsWrittenOpens == \A img \in Written : ~ParseFails(img, FALSE)

=============================================================================
