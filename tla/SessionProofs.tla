--------------------------- MODULE SessionProofs ----------------------------
(***************************************************************************)
(* Proofs about module Session, for every set of images a session may      *)
(* start from, every name and description, and every width of a byte.      *)
(***************************************************************************)
EXTENDS SessionRefinesVi, RsrcProofs

-----------------------------------------------------------------------------
(***************************************************************************)
(* Type correctness.                                                       *)
(***************************************************************************)

\* A new STRG section needs an identity no section has: without it, the type
\* of a file is not preserved.
WellFormed == TypeOK /\ SpareIsFree(disk) /\ SpareIsFree(file)

LEMMA EmptyFileType == IsFile(EmptyFile) /\ SpareIsFree(EmptyFile)
<1>1. EmptyFile.blocks = << >> /\ DOMAIN EmptyFile.sec = {} BY DEF EmptyFile
<1>2. IsLayout(<< >>, {}) BY DEF IsLayout
<1>3. IsMap(EmptyFile.sec, Sections, Section) /\ IsMap(EmptyFile.names, Nat, Name)
  BY FS_EmptySet DEF EmptyFile, IsMap
<1>4. /\ EmptyFile = [ hdr |-> EmptyFile.hdr, hdr2 |-> EmptyFile.hdr2,
                       blocks |-> EmptyFile.blocks, sec |-> EmptyFile.sec,
                       names |-> EmptyFile.names, rawTail |-> EmptyFile.rawTail ]
      /\ EmptyFile.hdr \in Nat /\ EmptyFile.hdr2 \in Nat
      /\ EmptyFile.rawTail \in Seq(Byte)
  BY DEF EmptyFile
<1> QED BY <1>1, <1>2, <1>3, <1>4 DEF IsFile, SpareIsFree

LEMMA InitType == Init => WellFormed
BY InitImagesAssumption, EmptyFileType DEF Init, WellFormed, TypeOK, Outcomes

LEMMA ApplyType ==
  ASSUME WellFormed, NEW after, IsFile(after), SpareIsFree(after), Apply(after)
  PROVE  WellFormed'
<1>1. file' = file \/ file' = after BY DEF Apply
<1>2. IsFile(file') /\ SpareIsFree(file') BY <1>1 DEF WellFormed, TypeOK
<1> QED BY <1>2 DEF Apply, WellFormed, TypeOK, Outcomes

LEMMA RefuseType ==
  ASSUME WellFormed, NEW err \in Outcomes, Refuse(err)
  PROVE  WellFormed'
BY DEF Refuse, WellFormed, TypeOK

LEMMA PutType ==
  ASSUME WellFormed, NEW fails, NEW img, ~fails => IsImage(img) /\ SpareIsFree(img),
         Put(fails, img)
  PROVE  WellFormed'
BY DEF Put, WellFormed, TypeOK, Outcomes

LEMMA StepType == WellFormed /\ [Next]_vars => WellFormed'
<1> SUFFICES ASSUME WellFormed, [Next]_vars PROVE WellFormed'
  OBVIOUS
<1>1. ASSUME NEW m \in OpenModes, Open(m) PROVE WellFormed'
  <2>1. CASE ParseFails(disk, m = "strict") /\ mode' = "closed" /\ file' = EmptyFile
    BY <1>1, <2>1, EmptyFileType DEF Open, WellFormed, TypeOK, Outcomes
  <2>2. CASE ~ParseFails(disk, m = "strict") /\ mode' = m /\ file' = Parse(disk)
    <3>1. IsFile(Parse(disk)) BY <2>2, ParseType DEF ParseFails, WellFormed, TypeOK
    <3>2. SpareIsFree(Parse(disk)) BY ParseKeepsSpare DEF WellFormed
    <3> QED BY <1>1, <2>2, <3>1, <3>2, OpenModesAssumption
            DEF Open, WellFormed, TypeOK, Outcomes
  <2> QED BY <1>1, <2>1, <2>2 DEF Open
<1>2. ASSUME NEW n \in NewNames, Rename(n) PROVE WellFormed'
  <2>0. n \in Seq(Byte) BY NewNamesAssumption
  <2>1. CASE Refuse(NameRefusal(file, n))
    <3>1. NameRefusal(file, n) \in Outcomes
      BY <2>1 DEF NameRefusal, TargetRefusal, Outcomes, Refuse
    <3> QED BY <2>1, <3>1, RefuseType
  <2>2. CASE NameRefusal(file, n) = "none" /\ Apply(NameEdited(file, n))
    <3>1. IsFile(NameEdited(file, n)) /\ SpareIsFree(NameEdited(file, n))
      BY <2>0, <2>2, NameEditedType, RenameKeepsSpare DEF WellFormed, TypeOK
    <3> QED BY <2>2, <3>1, ApplyType
  <2> QED BY <1>2, <2>1, <2>2 DEF Rename
<1>3. ASSUME NEW d \in Descriptions, Describe(d) PROVE WellFormed'
  <2> DEFINE err == DescriptionRefusal(file, d, mode = "strict")
  <2>1. CASE Refuse(err)
    <3>1. err \in Outcomes BY <2>1 DEF DescriptionRefusal, Outcomes, Refuse
    <3> HIDE DEF err
    <3> QED BY <2>1, <3>1, RefuseType
  <2>2. CASE Apply(DescriptionEdited(file, d))
    <3>1. d \in Description BY DescriptionsAssumption
    <3>2. IsFile(DescriptionEdited(file, d)) /\ SpareIsFree(DescriptionEdited(file, d))
      BY <3>1, DescriptionEditedType, DescriptionKeepsSpare DEF WellFormed, TypeOK
    <3> QED BY <2>2, <3>2, ApplyType
  <2> QED BY <1>3, <2>1, <2>2 DEF Describe
<1>4. CASE Write
  <2>1. ~SerializeFails(file) => IsImage(Serialize(file)) /\ SpareIsFree(Serialize(file))
    BY SerializeType, EmitKeepsSpare DEF WellFormed, TypeOK
  <2> QED BY <1>4, <2>1, PutType DEF Write
<1>5. CASE WriteCanonical
  <2>1. IsImage(SerializeCanonical(file)) /\ SpareIsFree(SerializeCanonical(file))
    BY SerializeType, EmitKeepsSpare DEF WellFormed, TypeOK
  <2> QED BY <1>5, <2>1, PutType DEF WriteCanonical
<1>6. CASE UNCHANGED vars BY <1>6 DEF vars, WellFormed, TypeOK
<1> QED BY <1>1, <1>2, <1>3, <1>4, <1>5, <1>6 DEF Next

\* Every image on disk and every file in memory is well formed, whatever is
\* opened, renamed, described and written: in particular each offset the
\* writers lay out is a natural number, each byte of the name tables they
\* build is a byte, no writer drops or doubles a section, and no two payloads
\* are written to one place.
THEOREM TypeCorrect == Spec => []TypeOK
<1>1. Init => WellFormed BY InitType
<1>2. WellFormed /\ [Next]_vars => WellFormed' BY StepType
<1>3. WellFormed => TypeOK BY DEF WellFormed
<1> QED BY <1>1, <1>2, <1>3, PTL DEF Spec

-----------------------------------------------------------------------------
(***************************************************************************)
(* Names.                                                                  *)
(***************************************************************************)

\* Where the table holds every section's name, looking a name up there adds
\* nothing to the name the section carries.
LEMMA ResolvedIsName ==
  ASSUME NEW f, IsFile(f), Resolved(f), NEW s \in DOMAIN f.sec
  PROVE  ResolvedName(f, s) = f.sec[s].name
<1>1. NoNameOffset \notin DOMAIN f.names BY DEF IsFile, IsMap, NoNameOffset
<1>2. CASE s \in Named(f) BY <1>2 DEF Resolved, ResolvedName
<1>3. CASE s \notin Named(f) BY <1>1, <1>3 DEF Named, ResolvedName
<1> QED BY <1>2, <1>3

\* A strict parse finds every name.
LEMMA StrictParseResolves ==
  ASSUME NEW img, ~StrictIssue(img)
  PROVE  Resolved(Parse(img))
<1> DEFINE f == Parse(img)
<1>1. SUFFICES ASSUME NEW s \in Named(f)
               PROVE  /\ f.sec[s].nameOff \in DOMAIN f.names
                      /\ f.names[f.sec[s].nameOff] = f.sec[s].name
  BY DEF Resolved
<1> DEFINE o == f.sec[s].nameOff
<1>2. /\ s \in DOMAIN img.sec /\ o = img.sec[s].nameOff /\ o # NoNameOffset
      /\ f.sec[s].name = IF o \in GoodOffsets(img) THEN NameAt(img, o) ELSE NoName
      /\ f.names = [p \in GoodOffsets(img) |-> NameAt(img, p)]
  BY DEF Named, Parse
<1>3. o \in GoodOffsets(img)
  BY <1>2 DEF StrictIssue, GoodOffsets, UsedOffsets
<1> HIDE DEF f
<1> QED BY <1>2, <1>3

\* Neither reusing an entry, nor rewriting one the section owns, nor adding one
\* takes the name of another section away.
LEMMA RenameResolves ==
  ASSUME NEW f, IsFile(f), Resolved(f), NEW n \in Seq(Byte),
         NameRefusal(f, n) = "none"
  PROVE  Resolved(NameEdited(f, n))
<1> DEFINE g == NameEdited(f, n)
           t == Only(OfType(f, "LVSR"))
<1>1. /\ DOMAIN g.sec = DOMAIN f.sec
      /\ \A s \in DOMAIN f.sec : s # t => g.sec[s] = f.sec[s]
      /\ g.sec[t].name = n
      /\ \/ g = f
         \/ g.sec[t].nameOff \in DOMAIN g.names /\ g.names[g.sec[t].nameOff] = n
      /\ DOMAIN f.names \subseteq DOMAIN g.names
      /\ \A s \in DOMAIN f.sec :
           s # t /\ f.sec[s].nameOff \in DOMAIN f.names =>
             g.names[f.sec[s].nameOff] = f.names[f.sec[s].nameOff]
  BY RenameShape
<1> HIDE DEF g, t
<1>2. CASE g = f BY <1>2 DEF g
<1>3. CASE g # f
  <2>1. Resolved(g) BY <1>1, <1>3 DEF Resolved, Named
  <2> QED BY <2>1 DEF g
<1> QED BY <1>2, <1>3

\* A description touches no name.
LEMMA DescriptionResolves ==
  ASSUME NEW f, IsFile(f), SpareIsFree(f), Resolved(f), NEW d
  PROVE  Resolved(DescriptionEdited(f, d))
<1> DEFINE g == DescriptionEdited(f, d)
<1>1. g.names = f.names BY DescriptionShape
<1>2. \A s \in Named(g) : /\ s \in Named(f)
                          /\ g.sec[s].nameOff = f.sec[s].nameOff
                          /\ g.sec[s].name = f.sec[s].name
  <2>1. PICK t \in DOMAIN g.sec :
          /\ DOMAIN g.sec = DOMAIN f.sec \cup {t}
          /\ t \in DOMAIN f.sec => /\ g.sec[t].name = f.sec[t].name
                                   /\ g.sec[t].nameOff = f.sec[t].nameOff
          /\ t \notin DOMAIN f.sec => g.sec[t].nameOff = NoNameOffset
          /\ \A s \in DOMAIN f.sec : s # t => g.sec[s] = f.sec[s]
    BY DescriptionShape
  <2> HIDE DEF g
  <2> QED BY <2>1 DEF Named
<1> HIDE DEF g
<1>3. Resolved(g) BY <1>1, <1>2 DEF Resolved
<1> QED BY <1>3 DEF g

-----------------------------------------------------------------------------
(***************************************************************************)
(* Names and payloads a parse leaves behind.                               *)
(***************************************************************************)

LEMMA EmptyFileRules == TableRules(EmptyFile) /\ Fits(EmptyFile)
<1>1. DOMAIN EmptyFile.sec = {} BY DEF EmptyFile
<1> QED BY <1>1 DEF TableRules, Fits

LEMMA ResolvedIsComplete ==
  ASSUME NEW f, Resolved(f)
  PROVE  Nameless(f) = {}
BY DEF Resolved, Nameless

-----------------------------------------------------------------------------
(***************************************************************************)
(* The invariant.  Types are needed to know that a new entry lies behind   *)
(* all others and that -1 is the offset of none.  The rules of the name    *)
(* table decide when a writer fails, and so when the gate has a baseline:  *)
(* it has one in every file opened strictly, for such a file misses no     *)
(* name, and this keeps the payloads of such a file readable.              *)
(***************************************************************************)

FileRules == TableRules(file) /\ (mode = "strict" => Fits(file))

SessionInv == WellFormed /\ NamesResolve /\ FileRules

LEMMA InvInit == Init => SessionInv
BY InitType, EmptyFileRules DEF Init, SessionInv, NamesResolve, FileRules

LEMMA ApplyResolves ==
  ASSUME SessionInv, NEW after, Apply(after), Resolved(file) => Resolved(after)
  PROVE  NamesResolve'
<1> SUFFICES ASSUME mode' = "strict" PROVE Resolved(file)'
  BY DEF NamesResolve
<1>1. mode = "strict" /\ file' \in {file, after} BY DEF Apply
<1>2. Resolved(file) BY <1>1 DEF SessionInv, NamesResolve
<1>3. file' = file \/ file' = after BY <1>1
<1> QED BY <1>2, <1>3

LEMMA StepResolves == SessionInv /\ [Next]_vars => NamesResolve'
<1> SUFFICES ASSUME SessionInv, [Next]_vars PROVE NamesResolve'
  OBVIOUS
<1>1. IsFile(file) /\ SpareIsFree(file) BY DEF SessionInv, WellFormed, TypeOK
<1>2. ASSUME UNCHANGED << mode, file >> PROVE NamesResolve'
  BY <1>2 DEF SessionInv, NamesResolve
<1>3. ASSUME NEW m \in OpenModes, Open(m) PROVE NamesResolve'
  <2> SUFFICES ASSUME mode' = "strict" PROVE Resolved(file)'
    BY DEF NamesResolve
  <2>1. ~StrictIssue(disk) /\ file' = Parse(disk)
    BY <1>3 DEF Open, ParseFails
  <2>2. Resolved(Parse(disk)) BY <2>1, StrictParseResolves
  <2> QED BY <2>1, <2>2
<1>4. ASSUME NEW n \in NewNames, Rename(n) PROVE NamesResolve'
  <2>1. CASE Refuse(NameRefusal(file, n)) BY <1>2, <2>1 DEF Refuse
  <2>2. CASE NameRefusal(file, n) = "none" /\ Apply(NameEdited(file, n))
    <3>1. Resolved(file) => Resolved(NameEdited(file, n))
      BY <1>1, <2>2, RenameResolves, NewNamesAssumption
    <3> QED BY <2>2, <3>1, ApplyResolves
  <2> QED BY <1>4, <2>1, <2>2 DEF Rename
<1>5. ASSUME NEW d \in Descriptions, Describe(d) PROVE NamesResolve'
  <2>1. CASE UNCHANGED << mode, file >> BY <1>2, <2>1
  <2>2. CASE Apply(DescriptionEdited(file, d))
    <3>1. Resolved(file) => Resolved(DescriptionEdited(file, d))
      BY <1>1, DescriptionResolves
    <3> QED BY <2>2, <3>1, ApplyResolves
  <2> QED BY <1>5, <2>1, <2>2 DEF Describe, Refuse
<1>6. CASE Write BY <1>2, <1>6 DEF Write, Put
<1>7. CASE WriteCanonical BY <1>2, <1>7 DEF WriteCanonical, Put
<1>8. CASE UNCHANGED vars BY <1>2, <1>8 DEF vars
<1> QED BY <1>3, <1>4, <1>5, <1>6, <1>7, <1>8 DEF Next

LEMMA ApplyRules ==
  ASSUME SessionInv, NEW after, Apply(after), TableRules(after),
         mode = "strict" /\ ~GateRejects(file, after) => Fits(after)
  PROVE  FileRules'
<1>1. CASE GateRejects(file, after)
  BY <1>1 DEF Apply, SessionInv, FileRules
<1>2. CASE ~GateRejects(file, after)
  BY <1>2 DEF Apply, SessionInv, FileRules
<1> QED BY <1>1, <1>2

LEMMA StepRules == SessionInv /\ [Next]_vars => FileRules'
<1> SUFFICES ASSUME SessionInv, [Next]_vars PROVE FileRules'
  OBVIOUS
<1>1. /\ IsFile(file) /\ SpareIsFree(file) /\ TableRules(file) /\ IsImage(disk)
      /\ mode = "strict" => Fits(file) /\ Nameless(file) = {}
  BY ResolvedIsComplete
     DEF SessionInv, WellFormed, TypeOK, FileRules, NamesResolve
<1>2. ASSUME UNCHANGED << mode, file >> PROVE FileRules'
  BY <1>2 DEF SessionInv, FileRules
<1>3. ASSUME NEW m \in OpenModes, Open(m) PROVE FileRules'
  <2>1. CASE file' = EmptyFile BY <2>1, EmptyFileRules DEF FileRules
  <2>2. CASE ~ParseFails(disk, m = "strict") /\ file' = Parse(disk)
    <3>1. TableRules(Parse(disk)) /\ Fits(Parse(disk))
      BY <1>1, <2>2, ParsedTableRules, ParsedFits DEF ParseFails
    <3> QED BY <2>2, <3>1 DEF FileRules
  <2> QED BY <1>3, <2>1, <2>2 DEF Open
<1>4. ASSUME NEW n \in NewNames, Rename(n) PROVE FileRules'
  <2>1. CASE Refuse(NameRefusal(file, n)) BY <1>2, <2>1 DEF Refuse
  <2>2. CASE NameRefusal(file, n) = "none" /\ Apply(NameEdited(file, n))
    <3>1. TableRules(NameEdited(file, n)) /\ (Fits(file) => Fits(NameEdited(file, n)))
      BY <1>1, <2>2, RenameRules, NewNamesAssumption
    <3> QED BY <1>1, <2>2, <3>1, ApplyRules
  <2> QED BY <1>4, <2>1, <2>2 DEF Rename
<1>5. ASSUME NEW d \in Descriptions, Describe(d) PROVE FileRules'
  <2>1. CASE UNCHANGED << mode, file >> BY <1>2, <2>1
  <2>2. CASE Apply(DescriptionEdited(file, d))
    <3>1. d \in Description BY DescriptionsAssumption
    <3>2. /\ TableRules(DescriptionEdited(file, d))
          /\ Fits(file) /\ Encode(d).len <= MaxPayload => Fits(DescriptionEdited(file, d))
      BY <1>1, DescriptionRules
    <3>3. mode = "strict" /\ ~GateRejects(file, DescriptionEdited(file, d)) =>
            Encode(d).len <= MaxPayload
      <4>1. Encode(d).len \in Nat /\ MaxPayload \in Nat
        BY <3>1, MaxLenAssumption DEF Encode, Description
      <4>2. mode = "strict" /\ ~GateRejects(file, DescriptionEdited(file, d)) =>
              ~(Encode(d).len > MaxPayload)
        BY <1>1, <3>1, GateOnDescription
      <4> QED BY <4>1, <4>2
    <3> QED BY <1>1, <2>2, <3>2, <3>3, ApplyRules
  <2> QED BY <1>5, <2>1, <2>2 DEF Describe, Refuse
<1>6. CASE Write BY <1>2, <1>6 DEF Write, Put
<1>7. CASE WriteCanonical BY <1>2, <1>7 DEF WriteCanonical, Put
<1>8. CASE UNCHANGED vars BY <1>2, <1>8 DEF vars
<1> QED BY <1>3, <1>4, <1>5, <1>6, <1>7, <1>8 DEF Next

LEMMA InvStep == SessionInv /\ [Next]_vars => SessionInv'
BY StepType, StepResolves, StepRules DEF SessionInv

\* The invariant along a behaviour.
LEMMA InvHolds == Spec => []SessionInv
BY InvInit, InvStep, PTL DEF Spec

\* In a file opened strictly every section finds its name in the table, after
\* any sequence of edits, whatever entries the sections share.
THEOREM NamesAlwaysResolve == Spec => []NamesResolve
<1>1. SessionInv => NamesResolve BY DEF SessionInv
<1> QED BY <1>1, InvHolds, PTL

\* Renaming the VI in a file opened strictly renames nothing else.
THEOREM RenameIsLocal == Spec => OnlyTargetRenamedStrict
<1> DEFINE Local ==
      mode = "strict" => \A n \in NewNames : Rename(n) =>
        \A s \in DOMAIN file.sec :
          file.sec[s].type # "LVSR" => ResolvedName(file', s) = ResolvedName(file, s)
<1>1. Init => SessionInv BY InvInit
<1>2. SessionInv /\ [Next]_vars => SessionInv' BY InvStep
<1>3. ASSUME SessionInv, SessionInv', [Next]_vars PROVE [Local]_vars
  <2> SUFFICES ASSUME mode = "strict", NEW n \in NewNames, Rename(n),
                      NEW s \in DOMAIN file.sec, file.sec[s].type # "LVSR"
               PROVE  ResolvedName(file', s) = ResolvedName(file, s)
    OBVIOUS
  <2>1. IsFile(file) /\ Resolved(file)
    BY <1>3 DEF SessionInv, WellFormed, TypeOK, NamesResolve
  <2>2. CASE Refuse(NameRefusal(file, n)) BY <2>2 DEF Refuse
  <2>3. CASE NameRefusal(file, n) = "none" /\ Apply(NameEdited(file, n))
    <3>1. CASE file' = file BY <3>1
    <3>2. CASE file' = NameEdited(file, n)
      <4> DEFINE g == NameEdited(file, n)
      <4>1. s \in DOMAIN g.sec /\ g.sec[s] = file.sec[s]
        BY <2>1, <2>3, RenameShape, NewNamesAssumption
      <4>2. IsFile(g) /\ Resolved(g)
        BY <2>1, <2>3, NameEditedType, RenameResolves, NewNamesAssumption
      <4>3. ResolvedName(g, s) = g.sec[s].name
        <5> HIDE DEF g
        <5> QED BY <4>1, <4>2, ResolvedIsName
      <4>4. ResolvedName(file, s) = file.sec[s].name BY <2>1, ResolvedIsName
      <4> QED BY <3>2, <4>1, <4>3, <4>4
    <3> QED BY <2>3, <3>1, <3>2 DEF Apply
  <2> QED BY <2>2, <2>3 DEF Rename
<1> HIDE DEF Local
<1>4. Spec => [][Local]_vars BY <1>1, <1>2, <1>3, PTL DEF Spec
<1> QED BY <1>4 DEF OnlyTargetRenamedStrict, Local

-----------------------------------------------------------------------------
(***************************************************************************)
(* What is written.  Both writers follow a plan that puts each name of the *)
(* table behind the offset of the sections that use it; all the rest       *)
(* follows from what the parser makes of such a plan.                      *)
(***************************************************************************)

LEMMA WrittenPlan ==
  ASSUME SessionInv, NEW img \in Written
  PROVE  /\ IsFile(file) /\ TableRules(file) /\ Nameless(file) = {}
         /\ \E blocks, values, place :
              /\ IsPlan(file, blocks, values, place)
              /\ KeepsNames(file, values)
              /\ img = Emit(file, blocks, values, place)
<1>1. IsFile(file) /\ TableRules(file)
  BY DEF SessionInv, WellFormed, TypeOK, FileRules
<1>2. \/ ~SerializeFails(file) /\ img = Serialize(file)
      \/ ~SerializeCanonicalFails(file) /\ img = SerializeCanonical(file)
  BY DEF Written
<1>3. Nameless(file) = {} BY <1>1, <1>2, FailsAlike
<1>4. UsedOffsets(file.sec) \subseteq DOMAIN file.names BY <1>1, <1>3, NamesComplete
<1>5. CASE img = Serialize(file)
  BY <1>1, <1>3, <1>4, <1>5, PreservingPlan DEF Serialize, KeepsNames
<1>6. CASE img = SerializeCanonical(file)
  BY <1>1, <1>3, <1>6, CanonicalPlan DEF SerializeCanonical, KeepsNames
<1> QED BY <1>1, <1>2, <1>3, <1>5, <1>6

\* Whatever a session has done to a file, what either writer makes of it opens
\* strictly and holds the same sections, names and payloads: in a strict
\* session always, in a lenient one unless a payload the parser refuses got
\* past the gate.
THEOREM WritesKeepContents == Spec => []RewriteKeepsContents
<1>1. SessionInv => RewriteKeepsContents
  <2> SUFFICES ASSUME SessionInv, mode = "strict" \/ Fits(file), NEW img \in Written
               PROVE  /\ ~ParseFails(img, TRUE)
                      /\ \A f \in {Parse(img)} : Contents(f) = Contents(file)
    BY DEF RewriteKeepsContents
  <2>1. Fits(file) BY DEF SessionInv, FileRules
  <2>2. ~StrictIssue(img) /\ ~Unreadable(img) /\ Contents(Parse(img)) = Contents(file)
    BY <2>1, WrittenPlan, PlanKeepsContents
  <2> QED BY <2>2 DEF ParseFails
<1> QED BY <1>1, InvHolds, PTL

\* What is written is as the validator wants it, whatever it said of the file
\* that was read: only the types of blocks are copied.
THEOREM WritesValidate == Spec => []WrittenValidates
<1>1. SessionInv => WrittenValidates
  BY WrittenPlan, PlanValidates DEF WrittenValidates
<1> QED BY <1>1, InvHolds, PTL

\* The end of what is left of a text when its first bytes go with it.
LEMMA TailIsSuffix ==
  ASSUME NEW t \in Seq(Byte), NEW r \in Seq(Byte), NEW e \in 0 .. Len(t)
  PROVE  IsSuffixOf(r, SubSeq(t \o r, e + 1, Len(t \o r)))
<1> DEFINE z == t \o r
           q == SubSeq(z, e + 1, Len(z))
<1>1. PICK m \in Nat, n \in Nat : m = Len(t) /\ n = Len(r) OBVIOUS
<1>2. /\ z \in Seq(Byte) /\ Len(z) = m + n
      /\ \A i \in 1 .. n : z[m + i] = r[i]
  BY <1>1, ConcatProperties
<1> HIDE DEF z
<1>3. \A i \in e + 1 .. m + n : z[i] \in Byte BY <1>2
<1>4. /\ q \in Seq(Byte)
      /\ Len(q) = m + n - e
      /\ \A k \in 1 .. m + n - e : q[k] = z[e + k]
  BY <1>1, <1>2, <1>3, SubSeqProperties
<1> HIDE DEF q
<1> DEFINE p == SubSeq(q, m - e + 1, m + n - e)
<1>5. \A i \in m - e + 1 .. m + n - e : q[i] \in Byte BY <1>1, <1>4
<1>6. /\ p \in Seq(Byte) /\ Len(p) = n
      /\ \A k \in 1 .. n : p[k] = q[m - e + k]
  BY <1>1, <1>4, <1>5, SubSeqProperties
<1> HIDE DEF p
<1>7. \A k \in 1 .. n : p[k] = r[k]
  <2> SUFFICES ASSUME NEW k \in 1 .. n PROVE p[k] = r[k]
    OBVIOUS
  <2>1. q[m - e + k] = z[m + k] BY <1>1, <1>4
  <2> QED BY <1>2, <1>6, <2>1
<1>8. p = r BY <1>1, <1>6, <1>7, SeqEqual
<1>9. Len(r) <= Len(q) /\ Len(q) - Len(r) + 1 = m - e + 1
  BY <1>1, <1>4
<1>10. SubSeq(q, Len(q) - Len(r) + 1, Len(q)) = r
  <2>1. SubSeq(q, m - e + 1, Len(q)) = r BY <1>4, <1>8 DEF p
  <2> QED BY <1>9, <2>1
<1>11. IsSuffixOf(r, q) BY <1>9, <1>10 DEF IsSuffixOf
<1> QED BY <1>11 DEF q, z

\* After a rewrite the raw tail still ends in the bytes it had: the parser
\* starts it at the latest where the table of names ends.
THEOREM RawTailIsKept == Spec => []RawTailKept
<1>1. SessionInv => RawTailKept
  <2> SUFFICES ASSUME SessionInv, NEW img \in Written
               PROVE  IsSuffixOf(file.rawTail, Parse(img).rawTail)
    BY DEF RawTailKept
  <2>1. IsFile(file) BY WrittenPlan
  <2>2. PICK blocks, values, place :
          /\ IsPlan(file, blocks, values, place)
          /\ img = Emit(file, blocks, values, place)
    BY WrittenPlan
  <2>3. PICK t \in Seq(Byte) :
          /\ Len(t) = TableSize(values, place)
          /\ img.tail = t \o file.rawTail
    <3>1. LET t == NameTable(values, place)
          IN  /\ t \in Seq(Byte) /\ Len(t) = TableSize(values, place)
              /\ Emit(file, blocks, values, place).tail = t \o file.rawTail
      BY <2>1, <2>2, EmittedTail
    <3> QED BY <2>2, <3>1
  <2>4. RawTailStart(img) \in 0 .. Len(t) BY <2>1, <2>2, <2>3, PlanKeepsTail
  <2>5. Parse(img).rawTail = SubSeq(img.tail, RawTailStart(img) + 1, Len(img.tail))
    BY DEF Parse
  <2>6. file.rawTail \in Seq(Byte) BY <2>1 DEF IsFile
  <2> QED BY <2>3, <2>4, <2>5, <2>6, TailIsSuffix
<1> QED BY <1>1, InvHolds, PTL

\* Rewriting what was just rewritten changes no length, whichever writer wrote
\* it, unless the file has a name of maximal length.
THEOREM RewritingIsStable == Spec => []RewriteStable
<1>1. SessionInv => RewriteStable
  <2> SUFFICES ASSUME SessionInv, NEW img \in Written, NoMaxName(file)
               PROVE  \A f \in {Parse(img)} : Len(Serialize(f).tail) = Len(img.tail)
    BY DEF RewriteStable
  <2>1. IsFile(file) /\ UsedOffsets(file.sec) \subseteq DOMAIN file.names
    BY WrittenPlan, NamesComplete
  <2>2. PICK blocks, values, place :
          /\ IsPlan(file, blocks, values, place)
          /\ KeepsNames(file, values)
          /\ img = Emit(file, blocks, values, place)
    BY WrittenPlan
  <2>3. \A o \in UsedOffsets(file.sec) : Len(values[o]) < MaxNameLen
    BY <2>1, <2>2 DEF KeepsNames, NoMaxName
  <2> QED BY <2>1, <2>2, <2>3, PlanIsStable
<1> QED BY <1>1, InvHolds, PTL

\* The canonical writer has a fixed point: what it has written it writes again,
\* byte for byte, whatever file it was given (a name of maximal length apart).
THEOREM CanonicalIsStable == Spec => []CanonicalStable
<1>1. SessionInv => CanonicalStable
  <2> SUFFICES ASSUME SessionInv, mode # "closed", ~SerializeCanonicalFails(file),
                      NoMaxName(file)
               PROVE  \A img \in {SerializeCanonical(file)} : \A f \in {Parse(img)} :
                        ~SerializeCanonicalFails(f) /\ SerializeCanonical(f) = img
    BY DEF CanonicalStable
  <2>1. IsFile(file) /\ TableRules(file)
    BY DEF SessionInv, WellFormed, TypeOK, FileRules
  <2>2. Nameless(file) = {} BY <2>1, FailsAlike
  <2>3. \A o \in UsedOffsets(file.sec) : Len(file.names[o]) < MaxNameLen
    BY <2>1, <2>2, NamesComplete DEF NoMaxName
  <2> QED BY <2>1, <2>2, <2>3, CanonicalAgain
<1> QED BY <1>1, InvHolds, PTL

-----------------------------------------------------------------------------
(***************************************************************************)
(* The gate.                                                               *)
(***************************************************************************)

\* The gate lets every rename pass and stops exactly the descriptions that
\* could not be read back, wherever the file before could be.
THEOREM GateIsExact == Spec => GateStopsOversizeOnly
<1> DEFINE Exact ==
      /\ \A n \in NewNames : Rename(n) => last' # "structural"
      /\ \A d \in Descriptions : Describe(d) =>
           /\ last' = "structural" => Encode(d).len > MaxPayload
           /\ last' = "ok" /\ Fits(file) /\ ~SerializeFails(file) =>
                Encode(d).len <= MaxPayload
<1>1. ASSUME SessionInv, [Next]_vars PROVE [Exact]_vars
  <2>1. IsFile(file) /\ SpareIsFree(file) /\ TableRules(file)
    BY <1>1 DEF SessionInv, WellFormed, TypeOK, FileRules
  <2>2. ASSUME NEW n \in NewNames, Rename(n) PROVE last' # "structural"
    <3>1. CASE Refuse(NameRefusal(file, n))
      BY <3>1 DEF Refuse, NameRefusal, TargetRefusal
    <3>2. CASE NameRefusal(file, n) = "none" /\ Apply(NameEdited(file, n))
      <4>1. ~GateRejects(file, NameEdited(file, n))
        BY <2>1, <3>2, GateOnRename, NewNamesAssumption
      <4> QED BY <3>2, <4>1 DEF Apply
    <3> QED BY <2>2, <3>1, <3>2 DEF Rename
  <2>3. ASSUME NEW d \in Descriptions, Describe(d)
        PROVE  /\ last' = "structural" => Encode(d).len > MaxPayload
               /\ last' = "ok" /\ Fits(file) /\ ~SerializeFails(file) =>
                    Encode(d).len <= MaxPayload
    <3> DEFINE after == DescriptionEdited(file, d)
               err == DescriptionRefusal(file, d, mode = "strict")
    <3>1. d \in Description BY DescriptionsAssumption
    <3>2. GateRejects(file, after) <=>
            (Nameless(file) = {} /\ Fits(file) /\ Encode(d).len > MaxPayload)
      BY <2>1, <3>1, GateOnDescription
    <3>3. Encode(d).len \in Nat /\ MaxPayload \in Nat
      BY <3>1, MaxLenAssumption DEF Encode, Description
    <3>4. SerializeFails(file) <=> Nameless(file) # {} BY <2>1, FailsAlike
    <3>5. CASE Refuse(err)
      BY <3>5 DEF Refuse, DescriptionRefusal
    <3>6. CASE Apply(after)
      <4>1. last' = IF GateRejects(file, after) THEN "structural" ELSE "ok"
        BY <3>6 DEF Apply
      <4> HIDE DEF after
      <4> QED BY <3>2, <3>3, <3>4, <4>1
    <3> QED BY <2>3, <3>5, <3>6 DEF Describe
  <2> HIDE DEF Exact
  <2> QED BY <2>2, <2>3 DEF Exact
<1> HIDE DEF Exact
<1>2. Spec => [][Exact]_vars BY <1>1, InvHolds, PTL DEF Spec
<1> QED BY <1>2 DEF GateStopsOversizeOnly, Exact

-----------------------------------------------------------------------------
(***************************************************************************)
(* The validator.                                                          *)
(***************************************************************************)

\* Each issue a strict open refuses a file for, the validator reports on the file
\* a lenient open makes of it, of the same sections, and no other of its kind.
THEOREM ValidatorSeesParseIssues == Spec => []ValidatorFindsParseIssues
<1>1. ValidatorFindsParseIssues
  <2> DEFINE f == Parse(disk)
  <2>1. /\ f.hdr = disk.hdr /\ f.hdr2 = disk.hdr2
        /\ DOMAIN f.sec = DOMAIN disk.sec
        /\ \A s \in DOMAIN disk.sec : f.sec[s].nameOff = disk.sec[s].nameOff
        /\ DOMAIN f.names = GoodOffsets(disk)
    BY DEF Parse
  <2> HIDE DEF f
  <2>2. "header.mismatch" \in ErrorCodes(f) <=> disk.hdr # disk.hdr2
    BY <2>1 DEF ErrorCodes
  <2>3. DanglingSections(f) = BadlyNamed(disk)
    <3>1. ASSUME NEW s \in DOMAIN disk.sec, disk.sec[s].nameOff # NoNameOffset
          PROVE  f.sec[s].nameOff \notin DOMAIN f.names
                   <=> BadName(disk, disk.sec[s].nameOff)
      <4>1. disk.sec[s].nameOff \in UsedOffsets(disk.sec) BY <3>1 DEF UsedOffsets
      <4> QED BY <2>1, <4>1 DEF GoodOffsets
    <3> QED BY <2>1, <3>1 DEF DanglingSections, Named, BadlyNamed
  <2>4. "section.name_offset.invalid" \in ErrorCodes(f) <=> BadlyNamed(disk) # {}
    BY <2>3 DEF ErrorCodes, DanglingName
  <2> QED BY <2>2, <2>3, <2>4 DEF ValidatorFindsParseIssues, f
<1> QED BY <1>1, PTL

\* A finite set has an element that is least in two numbers, the first first.
LEMMA LeastPair ==
  ASSUME NEW S, IsFiniteSet(S), S # {}, NEW a \in [S -> Int], NEW b \in [S -> Int]
  PROVE  \E m \in S : \A x \in S : ~(a[x] < a[m]) /\ ~(a[x] = a[m] /\ b[x] < b[m])
<1> DEFINE down == [x \in S |-> 0 - a[x]]
<1>1. PICK k \in S : \A x \in S : a[k] <= a[x]
  <2>1. down \in [S -> Int] OBVIOUS
  <2>2. PICK k \in S : \A x \in S : down[x] <= down[k]
    <3> HIDE DEF down
    <3> QED BY <2>1, GreatestValue
  <2>3. \A x \in S : a[k] <= a[x]
    <3> SUFFICES ASSUME NEW x \in S PROVE a[k] <= a[x]
      OBVIOUS
    <3>1. a[k] \in Int /\ a[x] \in Int /\ 0 - a[x] <= 0 - a[k] BY <2>2
    <3> QED BY <3>1
  <2> QED BY <2>3
<1> DEFINE T == {x \in S : a[x] = a[k]}
           low == [x \in T |-> 0 - b[x]]
<1>2. T \in SUBSET S /\ k \in T OBVIOUS
<1>3. IsFiniteSet(T)
  <2> HIDE DEF T
  <2> QED BY <1>2, FS_Subset
<1>4. low \in [T -> Int] OBVIOUS
<1>5. PICK m \in T : \A x \in T : low[x] <= low[m]
  <2> HIDE DEF T, low
  <2> QED BY <1>2, <1>3, <1>4, GreatestValue
<1>6. ASSUME NEW x \in S PROVE ~(a[x] < a[m]) /\ ~(a[x] = a[m] /\ b[x] < b[m])
  <2>1. m \in S /\ a[m] = a[k] OBVIOUS
  <2>2. a[x] \in Int /\ a[k] \in Int /\ b[x] \in Int /\ b[m] \in Int BY <2>1
  <2>3. a[k] <= a[x] BY <1>1
  <2>4. x \in T => 0 - b[x] <= 0 - b[m] BY <1>5
  <2>5. a[x] = a[m] => x \in T BY <2>1
  <2> HIDE DEF T
  <2> QED BY <2>1, <2>2, <2>3, <2>4, <2>5
<1> QED BY <1>6

\* If two payloads overlap, then two that are neighbours in the order of their
\* starts and ends do: of all that lie between the two, the first overlaps the
\* one in front of it.
LEMMA NeighboursSuffice ==
  ASSUME NEW f, IsFile(f)
  PROVE  NeighboursOverlap(f) <=>
           \E s, t \in DOMAIN f.sec :
             /\ s # t
             /\ f.sec[s].dataOff < RegionEnd(f.sec[t])
             /\ f.sec[t].dataOff < RegionEnd(f.sec[s])
<1> DEFINE S == DOMAIN f.sec
           lo == [s \in S |-> f.sec[s].dataOff]
           hi == [s \in S |-> RegionEnd(f.sec[s])]
<1>1. IsFiniteSet(S) BY DEF IsFile, IsMap
<1>2. \A s \in S : lo[s] \in Int /\ hi[s] \in Int /\ lo[s] < hi[s]
  <2> SUFFICES ASSUME NEW s \in S PROVE lo[s] \in Int /\ hi[s] \in Int /\ lo[s] < hi[s]
    OBVIOUS
  <2>1. f.sec[s] \in Section BY DEF IsFile, IsMap
  <2>2. f.sec[s].dataOff \in Nat /\ f.sec[s].payload \in Payload BY <2>1 DEF Section
  <2>3. f.sec[s].payload.len \in Nat BY <2>2, StoredSize
  <2> QED BY <2>2, <2>3 DEF RegionEnd
<1>3. \A s, t \in S : SortsBefore(f.sec[s], f.sec[t]) <=>
                        lo[s] < lo[t] \/ (lo[s] = lo[t] /\ hi[s] < hi[t])
  BY DEF SortsBefore
<1>4. lo \in [S -> Int] /\ hi \in [S -> Int] BY <1>2
<1>5. NeighboursOverlap(f) <=>
        \E s, t \in S :
          /\ s # t
          /\ ~SortsBefore(f.sec[t], f.sec[s])
          /\ ~\E r \in S : /\ SortsBefore(f.sec[s], f.sec[r])
                            /\ SortsBefore(f.sec[r], f.sec[t])
          /\ lo[t] < hi[s]
  BY DEF NeighboursOverlap
<1>6. ASSUME NEW s \in S, NEW t \in S, s # t,
             ~SortsBefore(f.sec[t], f.sec[s]), lo[t] < hi[s]
      PROVE  NeighboursOverlap(f)
  <2> DEFINE B == {r \in S : /\ SortsBefore(f.sec[s], f.sec[r])
                             /\ SortsBefore(f.sec[r], f.sec[t])}
             la == [r \in B |-> lo[r]]
             hb == [r \in B |-> hi[r]]
  <2>1. CASE B = {}
    <3> HIDE DEF S, lo, hi
    <3> QED BY <1>5, <1>6, <2>1
  <2>2. CASE B # {}
    <3>1. IsFiniteSet(B)
      <4>1. B \in SUBSET S OBVIOUS
      <4> HIDE DEF B, S
      <4> QED BY <1>1, <4>1, FS_Subset
    <3>2. la \in [B -> Int] /\ hb \in [B -> Int]
      <4> HIDE DEF lo, hi
      <4> QED BY <1>2
    <3>3. PICK m \in B : \A x \in B : ~(la[x] < la[m]) /\ ~(la[x] = la[m] /\ hb[x] < hb[m])
      <4> HIDE DEF B, la, hb
      <4> QED BY <2>2, <3>1, <3>2, LeastPair
    <3>4. /\ m \in S /\ SortsBefore(f.sec[s], f.sec[m]) /\ SortsBefore(f.sec[m], f.sec[t])
          /\ \A x \in S : SortsBefore(f.sec[s], f.sec[x]) /\ SortsBefore(f.sec[x], f.sec[t])
                => ~(lo[x] < lo[m]) /\ ~(lo[x] = lo[m] /\ hi[x] < hi[m])
      <4> HIDE DEF lo, hi
      <4> QED BY <3>3
    <3> HIDE DEF S, B, lo, hi
    <3>5. s # m /\ ~SortsBefore(f.sec[m], f.sec[s]) /\ lo[m] < hi[s]
      BY <1>2, <1>3, <1>6, <3>4
    <3>6. ASSUME NEW r \in S, SortsBefore(f.sec[s], f.sec[r]), SortsBefore(f.sec[r], f.sec[m])
          PROVE  FALSE
      <4>1. SortsBefore(f.sec[r], f.sec[t]) BY <1>2, <1>3, <3>4, <3>6
      <4>2. ~(lo[r] < lo[m]) /\ ~(lo[r] = lo[m] /\ hi[r] < hi[m]) BY <3>4, <3>6, <4>1
      <4> QED BY <1>3, <3>4, <3>6, <4>2
    <3> QED BY <1>5, <3>4, <3>5, <3>6
  <2> QED BY <2>1, <2>2
<1>7. ASSUME NEW s \in S, NEW t \in S, s # t, lo[s] < hi[t], lo[t] < hi[s]
      PROVE  NeighboursOverlap(f)
  <2>1. ~SortsBefore(f.sec[t], f.sec[s]) \/ ~SortsBefore(f.sec[s], f.sec[t])
    <3> HIDE DEF S, lo, hi
    <3> QED BY <1>2, <1>3
  <2> QED BY <1>6, <1>7, <2>1
<1>8. ASSUME NeighboursOverlap(f)
      PROVE  \E s, t \in S : s # t /\ lo[s] < hi[t] /\ lo[t] < hi[s]
  <2> HIDE DEF S, lo, hi
  <2>1. PICK s \in S, t \in S :
          s # t /\ ~SortsBefore(f.sec[t], f.sec[s]) /\ lo[t] < hi[s]
    BY <1>5, <1>8
  <2>2. lo[s] < hi[t] BY <1>2, <1>3, <2>1
  <2> QED BY <2>1, <2>2
<1> QED BY <1>7, <1>8

\* Comparing neighbours only, the validator misses no overlap in any file a
\* session can have on disk.
THEOREM NoOverlapIsMissed == Spec => []OverlapFound
<1>1. SessionInv => OverlapFound
  <2> SUFFICES ASSUME SessionInv, Readable
               PROVE  LET f == Parse(disk)
                      IN  NeighboursOverlap(f) <=>
                            \E s, t \in DOMAIN f.sec :
                              /\ s # t
                              /\ f.sec[s].dataOff < RegionEnd(f.sec[t])
                              /\ f.sec[t].dataOff < RegionEnd(f.sec[s])
    BY DEF OverlapFound
  <2>1. IsFile(Parse(disk))
    BY ParseType DEF SessionInv, WellFormed, TypeOK, Readable, ParseFails
  <2> QED BY <2>1, NeighboursSuffice
<1> QED BY <1>1, InvHolds, PTL

-----------------------------------------------------------------------------
(***************************************************************************)
(* The refinement.  Each edit, seen through Contents, is the edit of the   *)
(* abstract file; what is stored is what was in memory, because nothing is *)
(* lost in writing and reading it back.                                    *)
(***************************************************************************)

LEMMA ContentsAreSomething ==
  ASSUME NEW f, IsFile(f)
  PROVE  Contents(f) # Nothing /\ Contents(f) # Broken
<1>1. Contents(f).hdr \in Nat BY ContentsOf DEF IsFile
<1>2. Nothing.hdr = -1 /\ Broken.hdr = -2 BY DEF Nothing, Broken
<1> QED BY <1>1, <1>2

\* Of the sections of a type, as a caller counts them.
LEMMA ContentsTypes ==
  ASSUME NEW f, NEW t
  PROVE  {s \in DOMAIN Contents(f).sec : Contents(f).sec[s].type = t} = OfType(f, t)
<1> DEFINE c == Contents(f)
<1>1. DOMAIN c.sec = DOMAIN f.sec BY ContentsOf
<1>2. \A s \in DOMAIN f.sec :
        c.sec[s] = [ type |-> f.sec[s].type, index |-> f.sec[s].index,
                     name |-> ResolvedName(f, s), payload |-> f.sec[s].payload ]
  BY ContentsOf
<1> HIDE DEF c
<1>3. ASSUME NEW s \in DOMAIN f.sec PROVE c.sec[s].type = f.sec[s].type
  <2>1. c.sec[s] = [ type |-> f.sec[s].type, index |-> f.sec[s].index,
                     name |-> ResolvedName(f, s), payload |-> f.sec[s].payload ]
    BY <1>2
  <2> QED BY <2>1
<1> QED BY <1>1, <1>3 DEF OfType, c

LEMMA RenameContents ==
  ASSUME NEW f, IsFile(f), Resolved(f), NEW n \in Seq(Byte), NameRefusal(f, n) = "none"
  PROVE  \E t \in OfType(f, "LVSR") :
           Contents(NameEdited(f, n)) = [Contents(f) EXCEPT !.sec[t].name = n]
<1> DEFINE g == NameEdited(f, n)
           t == Only(OfType(f, "LVSR"))
           c == Contents(f)
<1>0. t \in OfType(f, "LVSR") BY RenameTarget DEF Only
<1>1. /\ t \in DOMAIN f.sec
      /\ DOMAIN g.sec = DOMAIN f.sec /\ g.hdr = f.hdr
      /\ \A s \in DOMAIN f.sec : s # t => g.sec[s] = f.sec[s]
      /\ g.sec[t].name = n
      /\ g.sec[t].type = f.sec[t].type /\ g.sec[t].index = f.sec[t].index
      /\ g.sec[t].payload = f.sec[t].payload
  BY RenameShape
<1>2. IsFile(g) /\ Resolved(g) BY NameEditedType, RenameResolves
<1> HIDE DEF g, t
<1>3. ResolvedName(g, t) = n BY <1>1, <1>2, ResolvedIsName
<1>4. \A s \in DOMAIN f.sec : s # t => ResolvedName(g, s) = ResolvedName(f, s)
  BY <1>1, <1>2, ResolvedIsName
<1> DEFINE seen(h, s) == [ type |-> h.sec[s].type, index |-> h.sec[s].index,
                           name |-> ResolvedName(h, s), payload |-> h.sec[s].payload ]
           x == seen(f, t)
<1>5. /\ c = [hdr |-> f.hdr, sec |-> [s \in DOMAIN f.sec |-> seen(f, s)]]
      /\ Contents(g) = [hdr |-> f.hdr, sec |-> [s \in DOMAIN f.sec |-> seen(g, s)]]
  BY <1>1 DEF Contents
<1>6. \A s \in DOMAIN f.sec : seen(g, s) = IF s = t THEN [x EXCEPT !.name = n] ELSE seen(f, s)
  BY <1>1, <1>3, <1>4
<1> HIDE DEF seen
<1>7. [c EXCEPT !.sec[t].name = n] =
        [ hdr |-> f.hdr,
          sec |-> [s \in DOMAIN f.sec |->
                     IF s = t THEN [x EXCEPT !.name = n] ELSE seen(f, s)] ]
  <2> HIDE DEF c
  <2> QED BY <1>1, <1>5
<1>8. [s \in DOMAIN f.sec |-> seen(g, s)] =
        [s \in DOMAIN f.sec |-> IF s = t THEN [x EXCEPT !.name = n] ELSE seen(f, s)]
  BY <1>6
<1> QED BY <1>0, <1>5, <1>7, <1>8 DEF g

LEMMA DescribeContents ==
  ASSUME NEW f, IsFile(f), SpareIsFree(f), Resolved(f), NEW d \in Description
  PROVE  LET c == Contents(f)
             e == Contents(DescriptionEdited(f, d))
         IN  \/ \E t \in OfType(f, "STRG") :
                  e = [c EXCEPT !.sec[t].payload = Encode(d)]
             \/ /\ OfType(f, "STRG") = {}
                /\ e.hdr = c.hdr
                /\ \A s \in DOMAIN c.sec : s \in DOMAIN e.sec /\ e.sec[s] = c.sec[s]
                /\ \E t \in DOMAIN e.sec :
                     /\ t \notin DOMAIN c.sec
                     /\ DOMAIN e.sec = DOMAIN c.sec \cup {t}
                     /\ e.sec[t].type = "STRG" /\ e.sec[t].payload = Encode(d)
<1> DEFINE g == DescriptionEdited(f, d)
           c == Contents(f)
           e == Contents(g)
           seen(h, s) == [ type |-> h.sec[s].type, index |-> h.sec[s].index,
                           name |-> ResolvedName(h, s), payload |-> h.sec[s].payload ]
<1>1. g.hdr = f.hdr BY DescriptionShape
<1>2. PICK t \in DOMAIN g.sec :
        /\ DOMAIN g.sec = DOMAIN f.sec \cup {t}
        /\ g.sec[t].type = "STRG" /\ g.sec[t].payload = Encode(d)
        /\ t \in DOMAIN f.sec => /\ f.sec[t].type = "STRG"
                                 /\ g.sec[t].index = f.sec[t].index
                                 /\ g.sec[t].name = f.sec[t].name
        /\ t \notin DOMAIN f.sec => OfType(f, "STRG") = {}
        /\ \A s \in DOMAIN f.sec : s # t => g.sec[s] = f.sec[s]
  BY DescriptionShape
<1>3. IsFile(g) /\ Resolved(g) BY DescriptionEditedType, DescriptionResolves
<1>4. /\ c = [hdr |-> f.hdr, sec |-> [s \in DOMAIN f.sec |-> seen(f, s)]]
      /\ e = [hdr |-> g.hdr, sec |-> [s \in DOMAIN g.sec |-> seen(g, s)]]
  BY DEF Contents
<1> HIDE DEF g
<1>5. \A s \in DOMAIN f.sec : ResolvedName(g, s) = ResolvedName(f, s)
  BY <1>2, <1>3, ResolvedIsName
<1>6. \A s \in DOMAIN f.sec : s # t => seen(g, s) = seen(f, s)
  BY <1>2, <1>5
<1>7. CASE t \in DOMAIN f.sec
  <2> DEFINE x == seen(f, t)
             y == [x EXCEPT !.payload = Encode(d)]
  <2>1. seen(g, t) = y BY <1>2, <1>5, <1>7
  <2>2. DOMAIN g.sec = DOMAIN f.sec BY <1>2, <1>7
  <2> HIDE DEF seen
  <2>3. [c EXCEPT !.sec[t].payload = Encode(d)] =
          [hdr |-> f.hdr, sec |-> [s \in DOMAIN f.sec |-> IF s = t THEN y ELSE seen(f, s)]]
    <3> HIDE DEF c, e
    <3> QED BY <1>4, <1>7
  <2>4. [s \in DOMAIN g.sec |-> seen(g, s)] =
          [s \in DOMAIN f.sec |-> IF s = t THEN y ELSE seen(f, s)]
    <3> HIDE DEF y
    <3> QED BY <1>6, <2>1, <2>2
  <2>5. e = [c EXCEPT !.sec[t].payload = Encode(d)] BY <1>1, <1>4, <2>3, <2>4
  <2>6. t \in OfType(f, "STRG") BY <1>2, <1>7 DEF OfType
  <2> QED BY <2>5, <2>6 DEF g
<1>8. CASE t \notin DOMAIN f.sec
  <2>1. /\ DOMAIN c.sec = DOMAIN f.sec /\ DOMAIN e.sec = DOMAIN g.sec
        /\ c.hdr = f.hdr /\ e.hdr = g.hdr
        /\ \A s \in DOMAIN f.sec : c.sec[s] = seen(f, s)
        /\ \A s \in DOMAIN g.sec : e.sec[s] = seen(g, s)
    BY <1>4
  <2>2. e.sec[t].type = g.sec[t].type /\ e.sec[t].payload = g.sec[t].payload
    <3>1. e.sec[t] = seen(g, t) BY <2>1
    <3> HIDE DEF e
    <3> QED BY <3>1
  <2> HIDE DEF c, e, seen
  <2>3. /\ OfType(f, "STRG") = {} /\ e.hdr = c.hdr
        /\ \A s \in DOMAIN c.sec : s \in DOMAIN e.sec /\ e.sec[s] = c.sec[s]
        /\ t \in DOMAIN e.sec /\ t \notin DOMAIN c.sec
        /\ DOMAIN e.sec = DOMAIN c.sec \cup {t}
        /\ e.sec[t].type = "STRG" /\ e.sec[t].payload = Encode(d)
    BY <1>1, <1>2, <1>6, <1>8, <2>1, <2>2
  <2> QED BY <2>3 DEF c, e, g
<1> QED BY <1>7, <1>8

StrictInv == SessionInv /\ mode # "lenient"

\* What both writers leave on disk is, to a caller, what was in memory.
LEMMA WrittenIsSeen ==
  ASSUME StrictInv, NEW img \in Written
  PROVE  ~ParseFails(img, FALSE) /\ Contents(Parse(img)) = Contents(file)
<1>1. mode = "strict" BY DEF StrictInv, SessionInv, WellFormed, TypeOK, Written
<1>2. Fits(file) BY <1>1 DEF StrictInv, SessionInv, FileRules
<1>3. ~Unreadable(img) /\ Contents(Parse(img)) = Contents(file)
  BY <1>2, WrittenPlan, PlanKeepsContents DEF StrictInv
<1> QED BY <1>3 DEF ParseFails

LEMMA LibraryInit == Init => Library!Init
BY DEF Init, Library!Init

LEMMA LibraryOpen ==
  ASSUME StrictInv, NEW m \in OpenModes, OpenModes \subseteq {"strict"}, Open(m)
  PROVE  Library!Open
<1>1. disk' = disk BY DEF Open
<1>2. Nothing # Broken
  <2>1. Nothing.hdr = -1 /\ Broken.hdr = -2 BY DEF Nothing, Broken
  <2> QED BY <2>1
<1>3. CASE mode' = "closed" BY <1>1, <1>2, <1>3 DEF Library!Open
<1>4. CASE ~ParseFails(disk, TRUE) /\ mode' = m /\ file' = Parse(disk)
  <2>1. ~ParseFails(disk, FALSE) /\ ~Unreadable(disk) BY <1>4 DEF ParseFails
  <2>2. IsFile(Parse(disk))
    BY <2>1, ParseType DEF StrictInv, SessionInv, WellFormed, TypeOK
  <2>3. Contents(Parse(disk)) # Broken BY <2>2, ContentsAreSomething
  <2>4. mode' # "closed" BY <1>4
  <2> QED BY <1>1, <1>4, <2>1, <2>3, <2>4 DEF Library!Open
<1> QED BY <1>3, <1>4 DEF Open

LEMMA LibraryRename ==
  ASSUME StrictInv, NEW n \in NewNames, Rename(n)
  PROVE  Library!Rename \/ UNCHANGED Library!vars
<1>1. /\ mode = "strict" /\ IsFile(file) /\ Resolved(file)
      /\ disk' = disk /\ mode' = mode
  BY DEF StrictInv, SessionInv, WellFormed, TypeOK, NamesResolve, Rename, Refuse, Apply
<1>2. CASE file' = file BY <1>1, <1>2 DEF Library!vars
<1>3. CASE NameRefusal(file, n) = "none" /\ file' = NameEdited(file, n)
  <2>1. Contents(file) # Nothing BY <1>1, ContentsAreSomething
  <2>2. ~(Cardinality(OfType(file, "LVSR")) > 1)
    BY <1>3 DEF NameRefusal, TargetRefusal
  <2>4. PICK t \in OfType(file, "LVSR") :
          Contents(file') = [Contents(file) EXCEPT !.sec[t].name = n]
    BY <1>1, <1>3, RenameContents, NewNamesAssumption
  <2>5. Library!OfType("LVSR") = OfType(file, "LVSR")
    BY <1>1, ContentsTypes DEF Library!OfType
  <2>6. OfType(file, "LVSR") = {t} BY <1>1, <2>2, OneOfType
  <2>7. Contents(file)' = [Contents(file) EXCEPT !.sec[t].name = n] BY <2>4
  <2> HIDE DEF Library!OfType
  <2> QED BY <1>1, <2>1, <2>4, <2>5, <2>6, <2>7 DEF Library!Rename
<1> QED BY <1>2, <1>3 DEF Rename, Refuse, Apply

LEMMA LibraryDescribe ==
  ASSUME StrictInv, NEW d \in Descriptions, Describe(d)
  PROVE  Library!Describe \/ UNCHANGED Library!vars
<1>1. /\ mode = "strict" /\ IsFile(file) /\ SpareIsFree(file) /\ Resolved(file)
      /\ disk' = disk /\ mode' = mode
  BY DEF StrictInv, SessionInv, WellFormed, TypeOK, NamesResolve, Describe, Refuse, Apply
<1>2. CASE file' = file BY <1>1, <1>2 DEF Library!vars
<1>3. CASE /\ DescriptionRefusal(file, d, TRUE) = "none"
           /\ file' = DescriptionEdited(file, d)
  <2> DEFINE c == Contents(file)
             e == Contents(DescriptionEdited(file, d))
  <2>1. c # Nothing BY <1>1, ContentsAreSomething
  <2>2. ~(Cardinality(OfType(file, "STRG")) > 1) BY <1>3 DEF DescriptionRefusal
  <2>3. Library!OfType("STRG") = OfType(file, "STRG")
    BY <1>1, ContentsTypes DEF Library!OfType
  <2>4. d \in Description BY DescriptionsAssumption
  <2>5. \/ \E t \in OfType(file, "STRG") : e = [c EXCEPT !.sec[t].payload = Encode(d)]
        \/ /\ OfType(file, "STRG") = {}
           /\ e.hdr = c.hdr
           /\ \A s \in DOMAIN c.sec : s \in DOMAIN e.sec /\ e.sec[s] = c.sec[s]
           /\ \E t \in DOMAIN e.sec :
                /\ t \notin DOMAIN c.sec
                /\ DOMAIN e.sec = DOMAIN c.sec \cup {t}
                /\ e.sec[t].type = "STRG" /\ e.sec[t].payload = Encode(d)
    BY <1>1, <2>4, DescribeContents
  <2>0. Contents(file)' = e BY <1>3
  <2> HIDE DEF e
  <2>6. CASE \E t \in OfType(file, "STRG") : e = [c EXCEPT !.sec[t].payload = Encode(d)]
    <3>1. PICK t \in OfType(file, "STRG") : e = [c EXCEPT !.sec[t].payload = Encode(d)]
      BY <2>6
    <3>2. OfType(file, "STRG") = {t} BY <1>1, <2>2, OneOfType
    <3> QED BY <1>1, <2>0, <2>1, <2>3, <3>1, <3>2 DEF Library!Describe
  <2>7. CASE ~\E t \in OfType(file, "STRG") : e = [c EXCEPT !.sec[t].payload = Encode(d)]
    <3>1. DOMAIN e.sec \ DOMAIN c.sec # {} BY <2>5, <2>7
    <3> QED BY <1>1, <2>0, <2>1, <2>3, <2>5, <2>7, <3>1 DEF Library!Describe
  <2> QED BY <2>6, <2>7
<1> QED BY <1>1, <1>2, <1>3 DEF Describe, Refuse, Apply

LEMMA LibrarySave ==
  ASSUME StrictInv, Write \/ WriteCanonical
  PROVE  Library!Save \/ UNCHANGED Library!vars
<1>1. mode # "closed" /\ mode' = mode /\ file' = file
  BY DEF Write, WriteCanonical, Put
<1>2. disk' = disk \/ disk' \in Written
  BY <1>1 DEF Write, WriteCanonical, Put, Written
<1>3. CASE disk' = disk BY <1>1, <1>3 DEF Library!vars
<1>4. CASE disk' \in Written
  <2>1. ~ParseFails(disk', FALSE) /\ Contents(Parse(disk')) = Contents(file)
    BY <1>4, WrittenIsSeen
  <2>2. Contents(file) # Nothing
    BY ContentsAreSomething DEF StrictInv, SessionInv, WellFormed, TypeOK
  <2> QED BY <1>1, <2>1, <2>2 DEF Library!Save
<1> QED BY <1>2, <1>3, <1>4

\* A session that opens files strictly is, to a caller, a behaviour of the
\* abstract file: whatever was edited is what is stored and found again, and
\* nothing else ever changes.
THEOREM StrictSessionIsLibrary ==
  ASSUME OpenModes \subseteq {"strict"}
  PROVE  Spec => ImplementsLibrary
<1>1. Init => StrictInv BY InvInit DEF Init, StrictInv
<1>2. StrictInv /\ [Next]_vars => StrictInv'
  <2> SUFFICES ASSUME StrictInv, [Next]_vars PROVE mode' # "lenient"
    BY InvStep DEF StrictInv
  <2> QED BY DEF StrictInv, Next, Open, Rename, Describe, Refuse, Apply,
                 Write, WriteCanonical, Put, vars
<1>3. StrictInv /\ [Next]_vars => [Library!Next]_Library!vars
  <2> SUFFICES ASSUME StrictInv, [Next]_vars
               PROVE  Library!Next \/ UNCHANGED Library!vars
    OBVIOUS
  <2>1. ASSUME NEW m \in OpenModes, Open(m) PROVE Library!Open
    BY <2>1, LibraryOpen
  <2>2. ASSUME NEW n \in NewNames, Rename(n)
        PROVE  Library!Rename \/ UNCHANGED Library!vars
    BY <2>2, LibraryRename
  <2>3. ASSUME NEW d \in Descriptions, Describe(d)
        PROVE  Library!Describe \/ UNCHANGED Library!vars
    BY <2>3, LibraryDescribe
  <2>4. CASE Write \/ WriteCanonical BY <2>4, LibrarySave DEF Library!Next
  <2>5. CASE UNCHANGED vars BY <2>5 DEF vars, Library!vars
  <2> QED BY <2>1, <2>2, <2>3, <2>4, <2>5 DEF Next, Library!Next
<1>4. Init => Library!Init BY LibraryInit
<1> QED BY <1>1, <1>2, <1>3, <1>4, PTL DEF Spec, ImplementsLibrary, Library!Spec

=============================================================================
